---- MODULE Spec2Model ----
(***************************************************************************)
(* Model of the book backend's asynchronous ML enrichment:                 *)
(*   - retryWithBackoff, retryOnCondition,                                 *)
(*     isRetryableError                             (utils/retry)          *)
(*   - BookService.createBook / processBookForML /                         *)
(*     reprocessFailedBooks / deleteBook            (books/book.service)   *)
(*   - MLService.embedBook / addToIndex             (ml/ml.service)        *)
(*   - the ML fields of a Book document             (books/book.model)     *)
(*   - BookService.getMLStats                       (books/book.service)   *)
(*   - tokenize                                     (utils/tokenizer)      *)
(*   - analyzePage, getTopWords, resetFrequency,                           *)
(*     MinHeap, getTopWordsHeap                     (analytics/            *)
(*                                                   wordFrequency)        *)
(*   - analyzeBookFromUpload                        (the upload analysis)  *)
(*                                                                         *)
(* An optional value (a field that may be missing, a local that may be     *)
(* undefined) is a set: {} is "absent", {v} is "present with value v".     *)
(***************************************************************************)
EXTENDS Integers, Sequences, FiniteSets, TLC

VARIABLES
    store,        \* the books collection: id -> the document, when there is one
    searchIndex,  \* the ML service's search index: ids added to it
    clock,        \* the wall clock read by new Date()
    task,         \* the processBookForML calls: slot -> frame of the async function
    log,          \* per call, the external calls and writes it has performed
    started,      \* number of processBookForML calls made so far
    batch,        \* the reprocessFailedBooks call: frame of the async function
    rs,           \* a retryWithBackoff call on its own: the frame of the function
    fnTrace,      \* that call: the outcome of each invocation of fn
    sleeps,       \* that call: every sleep(delay) performed
    observed,     \* that call: every onRetry(attempt, error) performed
    condition,    \* that call: the shouldRetry predicate, when it was made
                  \* through retryOnCondition
    stats,        \* the getMLStats call: frame of the async function
    globalFrequency, \* wordFrequency's module-level Map, in insertion order
    upload,       \* the analyzeBookFromUpload runs: slot -> frame
    heap,         \* a getTopWordsHeap call: frame of the function
    fnCall,       \* a call of tokenize or getTopWords: argument and result
    pages,        \* the chunks of a text handed to analyzePage one at a time
    books,        \* the Book collection of the upload service, in insertion order
    bucket,       \* the object keys stored in the S3 bucket
    mlRequests,   \* the runs that have sent POST /embed to the ML service
    embedIndex    \* the embedAndIndexBook calls: slot -> frame of the async function

vars == <<store, searchIndex, clock, task, log, started, batch, rs, fnTrace,
          sleeps, observed, condition, stats, globalFrequency, upload, heap,
          fnCall, pages, books, bucket, mlRequests, embedIndex>>
pipelineVars == <<store, searchIndex, clock, task, log, started, batch>>
retryVars == <<rs, fnTrace, sleeps, observed, condition>>
statsVars == <<stats>>
catalogVars == <<books, bucket, mlRequests, embedIndex>>
analyticsVars == <<globalFrequency, upload, heap, fnCall, pages, catalogVars>>

----------------------------------------------------------------------------
(* Frames of the functions that are not under way *)

IdleStats ==
    [pc |-> "idle", total |-> {}, processed |-> {}, failed |-> {}, result |-> {}]
StatsIdle == stats = IdleStats

IdleHeap == [pc |-> "idle", topN |-> 0, next |-> 0, data |-> <<>>, result |-> {}]
CatalogIdle ==
    /\ books = <<>>
    /\ bucket = {}
    /\ mlRequests = {}
    /\ embedIndex = <<>>
AnalyticsIdle ==
    /\ CatalogIdle
    /\ globalFrequency = <<>>
    /\ upload = <<>>
    /\ heap = IdleHeap
    /\ fnCall = {}
    /\ pages = {}

----------------------------------------------------------------------------
(* Bounds of the model *)

MaxBooks == 2
MaxTasks == 2
MaxRuns == 3
MaxRetriesOpt == 4
MaxInitialDelay == 2
MaxMaxDelay == 4
MaxMultiplier == 3
MaxBacklog == 11
MaxTextLen == 7
MaxPagesLen == 7
MaxChunks == 3
MaxUploads == 2
MaxTitles == 2
MaxCalls == 2
MaxStored == 2
MaxWords == 4
MaxCount == 3

BookIds == 1..MaxBooks
BacklogIds == 1..MaxBacklog
Tasks == 1..MaxTasks
Texts == {"Alpha Alpha Beta"}
Vectors == {"v1", "v2"}
Values == {"r1", "r2"}
Messages == {"ECONNRESET", "boom", "timeout"}

----------------------------------------------------------------------------
(* Helpers *)

None == {}
Some(v) == {v}
The(o) == CHOOSE v \in o : TRUE

Min(a, b) == IF a <= b THEN a ELSE b

RECURSIVE Pow(_, _)
Pow(b, e) == IF e = 0 THEN 1 ELSE b * Pow(b, e - 1)

NonDecreasing(s) == \A i \in 1..(Len(s) - 1) : s[i] <= s[i + 1]

----------------------------------------------------------------------------
(* retryWithBackoff *)

DefaultMaxDelay == 30000
DefaultBackoffMultiplier == 2
\* config.ml.retryDelay, the default of initialDelay
ConfigRetryDelay == 1

\* An Error object: its message and the invocation that created it.
Error(message, call) == [message |-> message, call |-> call]

\* The value of a variable that was never assigned.
Undefined == [undefined |-> TRUE]

\* The frame once the options are destructured and the loop is reached: with
\* maxRetries < 1 the body never runs and the throw after the loop raises the
\* unassigned lastError.
NewRetry(maxRetries, initialDelay, maxDelay, backoffMultiplier, hasOnRetry) ==
    [maxRetries |-> maxRetries, initialDelay |-> initialDelay,
     maxDelay |-> maxDelay, backoffMultiplier |-> backoffMultiplier,
     hasOnRetry |-> hasOnRetry,
     attempt |-> 1,
     state |-> IF 1 <= maxRetries THEN "calling" ELSE "thrown",
     result |-> None, lastError |-> None,
     thrown |-> IF 1 <= maxRetries THEN None ELSE Some(Undefined),
     delay |-> None, notify |-> None]

\* Math.min(initialDelay * Math.pow(backoffMultiplier, attempt - 1), maxDelay)
BackoffDelayFromAttempt(r) ==
    Min(r.initialDelay * Pow(r.backoffMultiplier, r.attempt), r.maxDelay)
BackoffDelay(r) ==
    Min(r.initialDelay * Pow(r.backoffMultiplier, r.attempt - 1), r.maxDelay)

\* return await fn(): the attempt's value is the result of the call.
RetryNoReturn(r, value) ==
    [r EXCEPT !.result = Some(value), !.delay = None, !.notify = None]
RetryOnSuccess(r, value) ==
    [r EXCEPT !.state = "returned", !.result = Some(value),
              !.delay = None, !.notify = None]

\* The catch block: the last attempt rethrows the error it caught; an earlier
\* one computes the delay, calls onRetry when one was given, and sleeps.
RetryGiveUpEarly(r, error) ==
    IF r.attempt >= r.maxRetries - 1
    THEN [r EXCEPT !.lastError = Some(error), !.state = "thrown",
                   !.thrown = Some(error), !.delay = None, !.notify = None]
    ELSE [r EXCEPT !.lastError = Some(error), !.state = "sleeping",
                   !.delay = Some(BackoffDelay(r)),
                   !.notify = IF r.hasOnRetry THEN Some(<<r.attempt, error>>)
                              ELSE None]
RetryOneMore(r, error) ==
    IF r.attempt = r.maxRetries + 1
    THEN [r EXCEPT !.lastError = Some(error), !.state = "thrown",
                   !.thrown = Some(error), !.delay = None, !.notify = None]
    ELSE [r EXCEPT !.lastError = Some(error), !.state = "sleeping",
                   !.delay = Some(BackoffDelay(r)),
                   !.notify = IF r.hasOnRetry THEN Some(<<r.attempt, error>>)
                              ELSE None]
RetryNotifyOnLast(r, error) ==
    IF r.attempt = r.maxRetries
    THEN [r EXCEPT !.lastError = Some(error), !.state = "thrown",
                   !.thrown = Some(error), !.delay = None,
                   !.notify = IF r.hasOnRetry THEN Some(<<r.attempt, error>>)
                              ELSE None]
    ELSE [r EXCEPT !.lastError = Some(error), !.state = "sleeping",
                   !.delay = Some(BackoffDelay(r)),
                   !.notify = IF r.hasOnRetry THEN Some(<<r.attempt, error>>)
                              ELSE None]
RetryOnFailure(r, error) ==
    IF r.attempt = r.maxRetries
    THEN [r EXCEPT !.lastError = Some(error), !.state = "thrown",
                   !.thrown = Some(error), !.delay = None, !.notify = None]
    ELSE [r EXCEPT !.lastError = Some(error), !.state = "sleeping",
                   !.delay = Some(BackoffDelay(r)),
                   !.notify = IF r.hasOnRetry THEN Some(<<r.attempt, error>>)
                              ELSE None]

\* The catch block when onRetry(attempt, lastError) throws: the call stands in
\* no try block, so its exception leaves retryWithBackoff before sleep(delay).
RetryObserverIgnored(r, error, exception) ==
    [r EXCEPT !.lastError = Some(error), !.state = "sleeping",
              !.delay = Some(BackoffDelay(r)),
              !.notify = Some(<<r.attempt, error>>)]
RetryOnObserverThrow(r, error, exception) ==
    [r EXCEPT !.lastError = Some(error), !.state = "thrown",
              !.thrown = Some(exception), !.delay = None,
              !.notify = Some(<<r.attempt, error>>)]

\* sleep(delay) resolves: attempt++, and the loop condition holds, since the
\* frame sleeps only after an attempt that was not the last.
RetryWake(r) ==
    [r EXCEPT !.attempt = @ + 1, !.state = "calling",
              !.delay = None, !.notify = None]

----------------------------------------------------------------------------
(* retryOnCondition and isRetryableError *)

\* The characters of a message.
Chars(message) ==
    CASE message = "ECONNRESET" -> <<"E", "C", "O", "N", "N", "R", "E", "S", "E", "T">>
      [] message = "boom" -> <<"b", "o", "o", "m">>
      [] message = "timeout" -> <<"t", "i", "m", "e", "o", "u", "t">>

UpperCase == <<"A", "B", "C", "D", "E", "F", "G", "H", "I", "J", "K", "L", "M",
               "N", "O", "P", "Q", "R", "S", "T", "U", "V", "W", "X", "Y", "Z">>
LowerCase == <<"a", "b", "c", "d", "e", "f", "g", "h", "i", "j", "k", "l", "m",
               "n", "o", "p", "q", "r", "s", "t", "u", "v", "w", "x", "y", "z">>

\* String.prototype.toLowerCase
ToLowerCase(str) ==
    [i \in DOMAIN str |->
        IF \E k \in DOMAIN UpperCase : UpperCase[k] = str[i]
        THEN LowerCase[CHOOSE k \in DOMAIN UpperCase : UpperCase[k] = str[i]]
        ELSE str[i]]

\* String.prototype.includes
Includes(str, sub) ==
    \E k \in 0..(Len(str) - Len(sub)) : SubSeq(str, k + 1, k + Len(sub)) = sub

RetryableMessages ==
    { <<"E", "C", "O", "N", "N", "R", "E", "F", "U", "S", "E", "D">>,
      <<"E", "T", "I", "M", "E", "D", "O", "U", "T">>,
      <<"E", "N", "O", "T", "F", "O", "U", "N", "D">>,
      <<"E", "C", "O", "N", "N", "R", "E", "S", "E", "T">>,
      <<"t", "i", "m", "e", "o", "u", "t">>,
      <<"n", "e", "t", "w", "o", "r", "k">> }

\* isRetryableError: the message is lower-cased, the list entries are not.
IsRetryableError(error) ==
    \E msg \in RetryableMessages : Includes(ToLowerCase(Chars(error.message)), msg)

\* A shouldRetry predicate is the set of messages it accepts.
ShouldRetry(accepted, error) == error.message \in accepted

\* The function retryOnCondition hands to retryWithBackoff: it awaits fn and
\* rethrows what fn threw, on either branch of the test of shouldRetry.
ConditionalFn(accepted, outcome) ==
    IF outcome.ok THEN outcome
    ELSE IF ~ShouldRetry(accepted, outcome.error)
         THEN outcome
         ELSE outcome

\* What retryWithBackoff sees of an invocation of fn.
Attempted(outcome) ==
    IF condition = None THEN outcome ELSE ConditionalFn(The(condition), outcome)

----------------------------------------------------------------------------
(* A retryWithBackoff call on its own, with any options and any operation *)

\* What the frame did in one step, as seen from outside.
Observe(r2) ==
    /\ sleeps' = IF r2.delay = None THEN sleeps ELSE Append(sleeps, The(r2.delay))
    /\ observed' = IF r2.notify = None THEN observed
                   ELSE Append(observed, The(r2.notify))

FnReturns ==
    /\ rs.state = "calling"
    /\ \E v \in Values :
          /\ fnTrace' = Append(fnTrace, [ok |-> TRUE, value |-> v])
          /\ rs' = RetryOnSuccess(rs, Attempted([ok |-> TRUE, value |-> v]).value)
    /\ Observe(rs')
    /\ UNCHANGED condition
    /\ UNCHANGED <<pipelineVars, statsVars, analyticsVars>>

FnThrows ==
    /\ rs.state = "calling"
    /\ \E m \in Messages :
          LET e == Error(m, Len(fnTrace) + 1) IN
          /\ fnTrace' = Append(fnTrace, [ok |-> FALSE, error |-> e])
          /\ rs' = RetryOnFailure(rs, Attempted([ok |-> FALSE, error |-> e]).error)
    /\ Observe(rs')
    /\ UNCHANGED condition
    /\ UNCHANGED <<pipelineVars, statsVars, analyticsVars>>

SleepEnds ==
    /\ rs.state = "sleeping"
    /\ rs' = RetryWake(rs)
    /\ UNCHANGED <<fnTrace, sleeps, observed, condition>>
    /\ UNCHANGED <<pipelineVars, statsVars, analyticsVars>>

\* What an onRetry observer throws: no invocation of fn made it.
ObserverException == Error("observer", 0)

\* fn throws on an attempt that is not the last and the onRetry observer, called
\* with the attempt and the error, throws in turn. The observer's call is
\* recorded with the exception it raised.
OnRetryThrows ==
    /\ rs.state = "calling"
    /\ rs.hasOnRetry
    /\ rs.attempt # rs.maxRetries
    /\ \E m \in Messages :
          LET e == Error(m, Len(fnTrace) + 1) IN
          /\ fnTrace' = Append(fnTrace, [ok |-> FALSE, error |-> e])
          /\ rs' = RetryOnObserverThrow(rs, Attempted([ok |-> FALSE, error |-> e]).error,
                                        ObserverException)
          /\ observed' = Append(observed, <<rs.attempt, e, ObserverException>>)
    /\ sleeps' = IF rs'.delay = None THEN sleeps ELSE Append(sleeps, The(rs'.delay))
    /\ UNCHANGED condition
    /\ UNCHANGED <<pipelineVars, statsVars, analyticsVars>>

----------------------------------------------------------------------------
(* Book documents and the collection *)

\* BookModel.create({...data, mlProcessed: false}): the ML fields of a new
\* document; embedding, mlProcessedAt and mlError have no schema default.
NewBook(text) ==
    [text |-> text, embedding |-> None, mlProcessed |-> FALSE,
     mlProcessedAt |-> None, mlError |-> None]

\* An update document sets the fields it names ($unset stores "absent").
ApplyUpdate(doc, update) ==
    [f \in DOMAIN doc |-> IF f \in DOMAIN update THEN update[f] ELSE doc[f]]

\* BookModel.updateOne({_id: id}, update): there is no upsert option, so a
\* filter that matches no document changes nothing.
UpdateOneUpsert(st, id, update) ==
    [st EXCEPT ![id] = Some(ApplyUpdate(
        IF st[id] = None THEN NewBook("") ELSE The(st[id]), update))]
UpdateOneFirstWins(st, id, update) ==
    IF st[id] = None \/ The(st[id]).mlProcessedAt # None THEN st
    ELSE [st EXCEPT ![id] = Some(ApplyUpdate(The(st[id]), update))]
UpdateOne(st, id, update) ==
    IF st[id] = None THEN st
    ELSE [st EXCEPT ![id] = Some(ApplyUpdate(The(st[id]), update))]

\* Step 2 of processBookForML: the update that saves the embedding.
EmbeddingUpdateKeepError(embedding, now) ==
    [embedding |-> Some(embedding), mlProcessed |-> TRUE,
     mlProcessedAt |-> Some(now)]
EmbeddingUpdateNoVector(embedding, now) ==
    [mlProcessed |-> TRUE, mlProcessedAt |-> Some(now), mlError |-> None]
EmbeddingUpdate(embedding, now) ==
    [embedding |-> Some(embedding), mlProcessed |-> TRUE,
     mlProcessedAt |-> Some(now), mlError |-> None]

\* The catch block of processBookForML: the update that marks the failure.
FailureUpdateDropEmbedding(error) ==
    [mlProcessed |-> FALSE, mlError |-> Some(error.message), embedding |-> None]
FailureUpdateNoFlag(error) ==
    [mlError |-> Some(error.message)]
FailureUpdate(error) ==
    [mlProcessed |-> FALSE, mlError |-> Some(error.message)]

----------------------------------------------------------------------------
(* MLService and the errors of processBookForML *)

EmbedMaxRetries == 3
IndexMaxRetries == 3

EmbedErrorMessage == "Embedding service unavailable"
IndexErrorMessage == "Failed to add book to search index"
NotFoundError(id) == Error(<<"Book", id, "not found">>, 0)

\* retryWithBackoff(() => mlService.embedBook(book.text), {maxRetries: 3, onRetry})
EmbedRetry ==
    NewRetry(EmbedMaxRetries, ConfigRetryDelay, DefaultMaxDelay,
             DefaultBackoffMultiplier, TRUE)
\* retryWithBackoff(() => mlService.addToIndex(...), {maxRetries: 3})
IndexRetry ==
    NewRetry(IndexMaxRetries, ConfigRetryDelay, DefaultMaxDelay,
             DefaultBackoffMultiplier, FALSE)

----------------------------------------------------------------------------
(* processBookForML: one frame per call *)

\* pc: where the call is suspended; book: what the call reads of the loaded
\* document (its text); outcome and error: how the returned promise settled.
\* A settled call keeps none of its locals.
IdleFrame ==
    [pc |-> "idle", bookId |-> 0, book |-> None, retry |-> None,
     embedding |-> None, error |-> None, outcome |-> "none"]

\* An entry of a call's log: findById (ok: a document was found), embedBook
\* (ok: it returned; data: the vector), updateOne (data: the update document),
\* addToIndex (ok: it returned; data: the response).
Event(op, ok, data) == [op |-> op, ok |-> ok, data |-> data]

\* The frame of reprocessFailedBooks.  failedBooks: the documents the query
\* returned; next: the position of the for-of loop; calls and results: the
\* processBookForML calls made and how each settled; scanned: the collection
\* as the query saw it.
IdleBatch ==
    [pc |-> "idle", failedBooks |-> <<>>, next |-> 1, t |-> 0, calls |-> <<>>,
     results |-> <<>>, scanned |-> None, outcome |-> "none"]

PipelineInit ==
    /\ batch = IdleBatch
    /\ store = [id \in BookIds |-> None]
    /\ searchIndex = {}
    /\ clock = 1
    /\ task = [t \in Tasks |-> IdleFrame]
    /\ log = [t \in Tasks |-> <<>>]
    /\ started = 0

\* No retryWithBackoff call on its own is under way.
Init ==
    /\ PipelineInit
    /\ rs = [EmbedRetry EXCEPT !.state = "idle"]
    /\ fnTrace = <<>>
    /\ sleeps = <<>>
    /\ observed = <<>>
    /\ condition = None
    /\ StatsIdle
    /\ AnalyticsIdle

\* BookService.createBook: ids are handed out in increasing order.
CreateBook(id) ==
    /\ store[id] = None
    /\ \A j \in BookIds : j < id => store[j] # None
    /\ \E text \in Texts : store' = [store EXCEPT ![id] = Some(NewBook(text))]
    /\ UNCHANGED <<searchIndex, clock, task, log, started>>
    /\ UNCHANGED <<retryVars, statsVars, analyticsVars>>

\* A caller invokes processBookForML(id), which runs up to the await of
\* getBookById.  The lowest free slot holds the call.
StartCall(t, id) ==
    /\ task[t].pc = "idle"
    /\ \A u \in Tasks : u < t => task[u].pc # "idle"
    /\ task' = [task EXCEPT ![t] = [IdleFrame EXCEPT !.pc = "load", !.bookId = id]]
    /\ UNCHANGED <<store, searchIndex, clock, log>>
    /\ UNCHANGED <<retryVars, statsVars, analyticsVars>>

Enqueue(t, id) ==
    /\ started < MaxRuns
    /\ StartCall(t, id)
    /\ started' = started + 1

\* getBookById resolves: a missing book throws inside the try block.
AfterLoadSkipEmbedded(f, found) ==
    IF found = None
    THEN [f EXCEPT !.pc = "catch", !.error = Some(NotFoundError(f.bookId))]
    ELSE IF The(found).embedding # None
    THEN [f EXCEPT !.pc = "index", !.book = Some(The(found).text),
                   !.retry = Some(IndexRetry)]
    ELSE [f EXCEPT !.pc = "embed", !.book = Some(The(found).text),
                   !.retry = Some(EmbedRetry)]
AfterLoad(f, found) ==
    IF found = None
    THEN [f EXCEPT !.pc = "catch", !.error = Some(NotFoundError(f.bookId))]
    ELSE [f EXCEPT !.pc = "embed", !.book = Some(The(found).text),
                   !.retry = Some(EmbedRetry)]

Load(t) ==
    /\ task[t].pc = "load"
    /\ LET found == store[task[t].bookId] IN
       /\ task' = [task EXCEPT ![t] = AfterLoad(task[t], found)]
       /\ log' = [log EXCEPT ![t] = Append(@, Event("findById", found # None, None))]
    /\ UNCHANGED <<store, searchIndex, clock, started>>
    /\ UNCHANGED <<retryVars, statsVars, analyticsVars>>

\* await retryWithBackoff(...) of step 1 settles or sleeps: where the frame
\* goes next.
AfterEmbedSkipSave(f, r2) ==
    IF r2.state = "returned"
    THEN [f EXCEPT !.retry = Some(IndexRetry), !.embedding = r2.result, !.pc = "index"]
    ELSE IF r2.state = "thrown"
    THEN [f EXCEPT !.retry = Some(r2), !.error = r2.thrown, !.pc = "catch"]
    ELSE [f EXCEPT !.retry = Some(r2), !.pc = "embedSleep"]
AfterEmbed(f, r2) ==
    IF r2.state = "returned"
    THEN [f EXCEPT !.retry = Some(r2), !.embedding = r2.result, !.pc = "saveEmbedding"]
    ELSE IF r2.state = "thrown"
    THEN [f EXCEPT !.retry = Some(r2), !.error = r2.thrown, !.pc = "catch"]
    ELSE [f EXCEPT !.retry = Some(r2), !.pc = "embedSleep"]

\* mlService.embedBook(book.text) settles: the vector of the response, or
\* Error("Embedding service unavailable") for any failure of the request.
EmbedCall(t) ==
    /\ task[t].pc = "embed"
    /\ LET r == The(task[t].retry) IN
       \/ \E v \in Vectors :
             /\ task' = [task EXCEPT ![t] = AfterEmbed(task[t], RetryOnSuccess(r, v))]
             /\ log' = [log EXCEPT ![t] = Append(@, Event("embedBook", TRUE, Some(v)))]
       \/ /\ task' = [task EXCEPT ![t] =
                AfterEmbed(task[t], RetryOnFailure(r, Error(EmbedErrorMessage, r.attempt)))]
          /\ log' = [log EXCEPT ![t] = Append(@, Event("embedBook", FALSE, None))]
    /\ UNCHANGED <<store, searchIndex, clock, started>>
    /\ UNCHANGED <<retryVars, statsVars, analyticsVars>>

EmbedWake(t) ==
    /\ task[t].pc = "embedSleep"
    /\ task' = [task EXCEPT ![t] =
          [task[t] EXCEPT !.retry = Some(RetryWake(The(task[t].retry))), !.pc = "embed"]]
    /\ UNCHANGED <<store, searchIndex, clock, log, started>>
    /\ UNCHANGED <<retryVars, statsVars, analyticsVars>>

\* Step 2: await BookModel.updateOne({_id: bookId}, {embedding, ...}); then
\* step 3 begins.
SaveEmbedding(t) ==
    /\ task[t].pc = "saveEmbedding"
    /\ LET update == EmbeddingUpdate(The(task[t].embedding), clock) IN
       /\ store' = UpdateOne(store, task[t].bookId, update)
       /\ log' = [log EXCEPT ![t] = Append(@, Event("updateOne", TRUE, Some(update)))]
    /\ clock' = clock + 1
    /\ task' = [task EXCEPT ![t] =
          [task[t] EXCEPT !.pc = "index", !.retry = Some(IndexRetry)]]
    /\ UNCHANGED <<searchIndex, started>>
    /\ UNCHANGED <<retryVars, statsVars, analyticsVars>>

\* await retryWithBackoff(...) of step 3 settles or sleeps; when it returns,
\* the function returns.
AfterIndex(f, r2) ==
    IF r2.state = "returned"
    THEN [IdleFrame EXCEPT !.bookId = f.bookId, !.pc = "done", !.outcome = "resolved"]
    ELSE IF r2.state = "thrown"
    THEN [f EXCEPT !.retry = Some(r2), !.error = r2.thrown, !.pc = "catch"]
    ELSE [f EXCEPT !.retry = Some(r2), !.pc = "indexSleep"]

\* mlService.addToIndex(bookId, book.text, metadata) settles: response.data
\* (an IndexAddResponse, whose success field tells whether the book was
\* added), or Error("Failed to add book to search index").
IndexCall(t) ==
    /\ task[t].pc = "index"
    /\ LET r == The(task[t].retry) IN
       \/ /\ task' = [task EXCEPT ![t] = AfterIndex(task[t], RetryOnSuccess(r, "added"))]
          /\ log' = [log EXCEPT ![t] =
                Append(@, Event("addToIndex", TRUE, Some([success |-> TRUE])))]
          /\ searchIndex' = searchIndex \cup {task[t].bookId}
       \/ /\ task' = [task EXCEPT ![t] = AfterIndex(task[t], RetryOnSuccess(r, "refused"))]
          /\ log' = [log EXCEPT ![t] =
                Append(@, Event("addToIndex", TRUE, Some([success |-> FALSE])))]
          /\ UNCHANGED searchIndex
       \/ /\ task' = [task EXCEPT ![t] =
                AfterIndex(task[t], RetryOnFailure(r, Error(IndexErrorMessage, r.attempt)))]
          /\ log' = [log EXCEPT ![t] = Append(@, Event("addToIndex", FALSE, None))]
          /\ UNCHANGED searchIndex
    /\ UNCHANGED <<store, clock, started>>
    /\ UNCHANGED <<retryVars, statsVars, analyticsVars>>

IndexWake(t) ==
    /\ task[t].pc = "indexSleep"
    /\ task' = [task EXCEPT ![t] =
          [task[t] EXCEPT !.retry = Some(RetryWake(The(task[t].retry))), !.pc = "index"]]
    /\ UNCHANGED <<store, searchIndex, clock, log, started>>
    /\ UNCHANGED <<retryVars, statsVars, analyticsVars>>

\* The catch block: mark the failure, then rethrow the error caught.
AfterCatchSwallow(f) ==
    [IdleFrame EXCEPT !.bookId = f.bookId, !.pc = "done", !.outcome = "resolved"]
AfterCatchWrap(f) ==
    [IdleFrame EXCEPT !.bookId = f.bookId, !.pc = "done", !.outcome = "rejected",
                      !.error = Some(Error(The(f.error).message, 0))]
AfterCatch(f) ==
    [IdleFrame EXCEPT !.bookId = f.bookId, !.pc = "done", !.outcome = "rejected",
                      !.error = f.error]

Catch(t) ==
    /\ task[t].pc = "catch"
    /\ LET update == FailureUpdate(The(task[t].error)) IN
       /\ store' = UpdateOne(store, task[t].bookId, update)
       /\ log' = [log EXCEPT ![t] = Append(@, Event("updateOne", TRUE, Some(update)))]
    /\ task' = [task EXCEPT ![t] = AfterCatch(task[t])]
    /\ UNCHANGED <<searchIndex, clock, started>>
    /\ UNCHANGED <<retryVars, statsVars, analyticsVars>>

\* The caller's continuation runs on the settled promise (the controller's
\* .catch handler, the await in reprocessFailedBooks): the call is over.
Release(t) ==
    /\ task[t].pc = "done"
    /\ task' = [task EXCEPT ![t] = IdleFrame]
    /\ log' = [log EXCEPT ![t] = <<>>]
    /\ UNCHANGED <<store, searchIndex, clock, started>>
    /\ UNCHANGED <<retryVars, statsVars, analyticsVars>>

TaskStep(t) ==
    \/ Load(t)
    \/ EmbedCall(t)
    \/ EmbedWake(t)
    \/ SaveEmbedding(t)
    \/ IndexCall(t)
    \/ IndexWake(t)
    \/ Catch(t)
    \/ Release(t)

\* Calls run as independent asynchronous tasks, with no per-book exclusion.
Next ==
    /\ \/ \E id \in BookIds : CreateBook(id)
       \/ \E t \in Tasks, id \in BookIds : Enqueue(t, id)
       \/ \E t \in Tasks : TaskStep(t)
    /\ UNCHANGED batch

Spec == Init /\ [][Next]_vars

\* The same calls, each awaited before the next one is made.
SeqEnqueue(t, id) ==
    /\ \A u \in Tasks : task[u].pc = "idle"
    /\ Enqueue(t, id)

SeqNext ==
    /\ \/ \E id \in BookIds : CreateBook(id)
       \/ \E t \in Tasks, id \in BookIds : SeqEnqueue(t, id)
       \/ \E t \in Tasks : TaskStep(t)
    /\ UNCHANGED batch

SeqSpec == Init /\ [][SeqNext]_vars

\* The shouldRetry predicates a caller of retryOnCondition may pass:
\* isRetryableError, one that accepts nothing, one that accepts everything.
Predicates ==
    { {m \in Messages : IsRetryableError(Error(m, 0))}, {}, Messages }

\* One retryWithBackoff call on its own.  The options a caller may pass: any
\* attempt budget, delays and multiplier within the bounds, with or without
\* an onRetry callback; the call is made directly or through
\* retryOnCondition.
RetryInit ==
    /\ PipelineInit
    /\ \E n \in 0..MaxRetriesOpt, d \in 0..MaxInitialDelay,
          m \in 0..MaxMaxDelay, b \in 2..MaxMultiplier, cb \in BOOLEAN :
          rs = NewRetry(n, d, m, b, cb)
    /\ fnTrace = <<>>
    /\ sleeps = <<>>
    /\ observed = <<>>
    /\ condition \in {None} \cup {Some(p) : p \in Predicates}
    /\ StatsIdle
    /\ AnalyticsIdle

RetryNext == FnReturns \/ FnThrows \/ SleepEnds

RetrySpec == RetryInit /\ [][RetryNext]_vars

\* The same call with an onRetry observer that may throw.
ObserverNext == FnReturns \/ FnThrows \/ SleepEnds \/ OnRetryThrows

ObserverSpec == RetryInit /\ [][ObserverNext]_vars

----------------------------------------------------------------------------
(* reprocessFailedBooks and deleteBook *)

ReprocessLimit == 10

RECURSIVE Ascending(_)
Ascending(S) ==
    IF S = {} THEN <<>>
    ELSE LET m == CHOOSE x \in S : \A y \in S : x <= y
         IN <<m>> \o Ascending(S \ {m})

\* BookModel.find({mlProcessed: false, mlError: {$exists: true}})
FindUnprocessed(st) ==
    {id \in DOMAIN st : st[id] # None /\ The(st[id]).mlProcessed = FALSE}
FindFailed(st) ==
    {id \in DOMAIN st :
        /\ st[id] # None
        /\ The(st[id]).mlProcessed = FALSE
        /\ The(st[id]).mlError # None}

\* query.limit(n): n of the matching documents, all of them when there are
\* fewer; no sort is given, so which n is up to the server.
Unlimited(found, n) == {found}
Limit(found, n) ==
    {sel \in SUBSET found : Cardinality(sel) = Min(Cardinality(found), n)}

\* The query resolves and the loop is entered.
AfterFind(b, failedBooks, st) ==
    [b EXCEPT !.pc = "loop", !.failedBooks = failedBooks, !.scanned = Some(st)]

\* reprocessFailedBooks() is called and its query answered.
ReprocessFailedBooks ==
    /\ batch.pc = "idle"
    /\ \E sel \in Limit(FindFailed(store), ReprocessLimit) :
          batch' = AfterFind(batch, Ascending(sel), store)
    /\ UNCHANGED <<store, searchIndex, clock, task, log, started>>
    /\ UNCHANGED <<retryVars, statsVars, analyticsVars>>

\* The loop body without its await: the call is started and the loop moves on.
BatchCallNoAwait ==
    /\ batch.pc = "loop"
    /\ batch.next <= Len(batch.failedBooks)
    /\ \E t \in Tasks :
          /\ StartCall(t, batch.failedBooks[batch.next])
          /\ batch' = [batch EXCEPT !.next = @ + 1,
                          !.calls = Append(@, batch.failedBooks[batch.next]),
                          !.results = Append(@, "resolved")]
    /\ UNCHANGED started

\* The loop body: await this.processBookForML(book._id.toString())
BatchCall ==
    /\ batch.pc = "loop"
    /\ batch.next <= Len(batch.failedBooks)
    /\ \E t \in Tasks :
          /\ StartCall(t, batch.failedBooks[batch.next])
          /\ batch' = [batch EXCEPT !.pc = "await", !.t = t,
                          !.calls = Append(@, batch.failedBooks[batch.next])]
    /\ UNCHANGED started

\* The awaited call settles: a rejection is caught and logged, and the loop
\* goes on to the next document either way.
AfterSettledAbort(b, outcome) ==
    IF outcome = "rejected"
    THEN [b EXCEPT !.results = Append(@, outcome), !.pc = "done", !.t = 0,
                   !.outcome = "rejected"]
    ELSE [b EXCEPT !.results = Append(@, outcome), !.next = @ + 1,
                   !.pc = "loop", !.t = 0]
AfterSettled(b, outcome) ==
    [b EXCEPT !.results = Append(@, outcome), !.next = @ + 1, !.pc = "loop",
              !.t = 0]

BatchSettle ==
    /\ batch.pc = "await"
    /\ Release(batch.t)
    /\ batch' = AfterSettled(batch, task[batch.t].outcome)

\* The loop is over: the function returns.
BatchReturn ==
    /\ batch.pc = "loop"
    /\ batch.next > Len(batch.failedBooks)
    /\ batch' = [batch EXCEPT !.pc = "done", !.outcome = "resolved"]
    /\ UNCHANGED <<store, searchIndex, clock, task, log, started>>
    /\ UNCHANGED <<retryVars, statsVars, analyticsVars>>

\* The steps of a processBookForML call whose caller has not yet seen it
\* settle.
CallStep(t) ==
    /\ \/ Load(t)
       \/ EmbedCall(t)
       \/ EmbedWake(t)
       \/ SaveEmbedding(t)
       \/ IndexCall(t)
       \/ IndexWake(t)
       \/ Catch(t)
    /\ UNCHANGED batch

\* BookService.deleteBook, from a concurrent request.
DeleteBook(id) ==
    /\ store[id] # None
    /\ store' = [store EXCEPT ![id] = None]
    /\ UNCHANGED <<searchIndex, clock, task, log, started, batch>>
    /\ UNCHANGED <<retryVars, statsVars, analyticsVars>>

\* The documents a stored book can be met as when no call is under way: never
\* processed, processed, failed at the embedding step, failed at the index
\* step.
PendingDoc == NewBook("Alpha Alpha Beta")
ProcessedDoc == ApplyUpdate(PendingDoc, EmbeddingUpdate("v1", 0))
EmbedFailedDoc ==
    ApplyUpdate(PendingDoc, FailureUpdate(Error(EmbedErrorMessage, EmbedMaxRetries)))
IndexFailedDoc ==
    ApplyUpdate(ProcessedDoc, FailureUpdate(Error(IndexErrorMessage, IndexMaxRetries)))
StoredDocs == {PendingDoc, ProcessedDoc, EmbedFailedDoc, IndexFailedDoc}

\* One reprocessFailedBooks call on a collection in any condition.
BatchInit ==
    /\ store \in [BookIds -> {None} \cup {Some(d) : d \in StoredDocs}]
    /\ searchIndex = {id \in BookIds : store[id] = Some(ProcessedDoc)}
    /\ clock = 1
    /\ task = [t \in Tasks |-> IdleFrame]
    /\ log = [t \in Tasks |-> <<>>]
    /\ started = 0
    /\ batch = IdleBatch
    /\ rs = [EmbedRetry EXCEPT !.state = "idle"]
    /\ fnTrace = <<>>
    /\ sleeps = <<>>
    /\ observed = <<>>
    /\ condition = None
    /\ StatsIdle
    /\ AnalyticsIdle

BatchNext ==
    \/ ReprocessFailedBooks
    \/ BatchCall
    \/ \E t \in Tasks : CallStep(t)
    \/ BatchSettle
    \/ BatchReturn
    \/ \E id \in BookIds : DeleteBook(id)

BatchSpec == BatchInit /\ [][BatchNext]_vars

\* One reprocessFailedBooks call on a collection that can hold more failed
\* books than the query's limit: the first k books have failed (at the
\* embedding step and at the index step in turn), the others are processed
\* or never processed in turn.
BacklogDoc(id, k) ==
    IF id <= k
    THEN (IF id % 2 = 1 THEN EmbedFailedDoc ELSE IndexFailedDoc)
    ELSE (IF id % 2 = 1 THEN ProcessedDoc ELSE PendingDoc)

BacklogInit ==
    /\ \E k \in 0..MaxBacklog : store = [id \in BacklogIds |-> Some(BacklogDoc(id, k))]
    /\ searchIndex = {id \in BacklogIds : store[id] = Some(ProcessedDoc)}
    /\ clock = 1
    /\ task = [t \in Tasks |-> IdleFrame]
    /\ log = [t \in Tasks |-> <<>>]
    /\ started = 0
    /\ batch = IdleBatch
    /\ rs = [EmbedRetry EXCEPT !.state = "idle"]
    /\ fnTrace = <<>>
    /\ sleeps = <<>>
    /\ observed = <<>>
    /\ condition = None
    /\ StatsIdle
    /\ AnalyticsIdle

\* The ML service is down during at most one of the calls of the batch.
Rejections ==
    Cardinality({i \in DOMAIN batch.results : batch.results[i] = "rejected"})
    + Cardinality({t \in Tasks : task[t].pc = "catch" \/ task[t].outcome = "rejected"})
OneOutage == Rejections <= 1

\* The search index refuses no book of the backlog but the first.
OneRefusal ==
    \A t \in Tasks : \A i \in DOMAIN log[t] :
        ( /\ log[t][i].op = "addToIndex"
          /\ log[t][i].ok
          /\ ~The(log[t][i].data).success )
        => task[t].bookId = 1

\* The embedding service maps one text to one vector, and every book of the
\* backlog has the same text.
SameVector == \A t \in Tasks : task[t].embedding \in {None, Some("v1")}

BacklogNext ==
    /\ \/ ReprocessFailedBooks
       \/ BatchCall
       \/ \E t \in Tasks : CallStep(t)
       \/ BatchSettle
       \/ BatchReturn
    /\ OneOutage'
    /\ OneRefusal'
    /\ SameVector'

BacklogSpec == BacklogInit /\ [][BacklogNext]_vars

\* Calls made by the controller for a book that exists (createBook's
\* background call, reprocessBook's), none awaited: any number of them can be
\* under way for the same book, the first one created.
RaceInit ==
    /\ store = [id \in BookIds |-> Some(PendingDoc)]
    /\ searchIndex = {}
    /\ clock = 1
    /\ task = [t \in Tasks |-> IdleFrame]
    /\ log = [t \in Tasks |-> <<>>]
    /\ started = 0
    /\ batch = IdleBatch
    /\ rs = [EmbedRetry EXCEPT !.state = "idle"]
    /\ fnTrace = <<>>
    /\ sleeps = <<>>
    /\ observed = <<>>
    /\ condition = None
    /\ StatsIdle
    /\ AnalyticsIdle

BackgroundCall(t, id) ==
    /\ StartCall(t, id)
    /\ UNCHANGED <<started, batch>>

RaceNext ==
    \/ \E t \in Tasks : BackgroundCall(t, 1)
    \/ \E t \in Tasks : CallStep(t)

RaceSpec == RaceInit /\ [][RaceNext]_vars

\* Calls for the first book, in whatever condition it is, each made once the
\* one before has settled; every call keeps its slot, so slot t holds the
\* t-th call.
RepeatInit ==
    /\ \E d \in StoredDocs :
          /\ store = [id \in BookIds |-> IF id = 1 THEN Some(d) ELSE None]
          /\ searchIndex = IF d = ProcessedDoc THEN {1} ELSE {}
    /\ clock = 1
    /\ task = [t \in Tasks |-> IdleFrame]
    /\ log = [t \in Tasks |-> <<>>]
    /\ started = 0
    /\ batch = IdleBatch
    /\ rs = [EmbedRetry EXCEPT !.state = "idle"]
    /\ fnTrace = <<>>
    /\ sleeps = <<>>
    /\ observed = <<>>
    /\ condition = None
    /\ StatsIdle
    /\ AnalyticsIdle

AwaitedCall(t, id) ==
    /\ \A u \in Tasks : task[u].pc \in {"idle", "done"}
    /\ BackgroundCall(t, id)

RepeatNext ==
    \/ \E t \in Tasks : AwaitedCall(t, 1)
    \/ \E t \in Tasks : CallStep(t)

RepeatSpec == RepeatInit /\ [][RepeatNext]_vars

\* The event loop runs every continuation that is ready: a request to the ML
\* service settles (the client has a timeout), a timer fires, a query or an
\* update of the store is answered.
FairRaceSpec == RaceSpec /\ \A t \in Tasks : WF_vars(CallStep(t))

----------------------------------------------------------------------------
(* getMLStats *)

\* A query filter: the value mlProcessed must have and whether mlError must
\* exist, each when the filter names the field.
Matches(doc, filter) ==
    /\ filter.mlProcessed # None => doc.mlProcessed = The(filter.mlProcessed)
    /\ filter.mlError # None => (doc.mlError # None) = The(filter.mlError).exists

\* BookModel.countDocuments(filter), on the collection as it is when the
\* query runs.
CountDocuments(st, filter) ==
    Cardinality({id \in BookIds : st[id] # None /\ Matches(The(st[id]), filter)})

\* The three filters of getMLStats: {}, {mlProcessed: true} and
\* {mlProcessed: false, mlError: {$exists: true}}.
AnyBook == [mlProcessed |-> None, mlError |-> None]
ProcessedBook == [mlProcessed |-> Some(TRUE), mlError |-> None]
FailedBook == [mlProcessed |-> Some(FALSE), mlError |-> Some([exists |-> TRUE])]

\* getMLStats() is called: Promise.all issues the three queries, and each
\* one runs on its own.
GetMLStats ==
    /\ stats.pc = "idle"
    /\ stats' = [IdleStats EXCEPT !.pc = "counting"]
    /\ UNCHANGED <<pipelineVars, retryVars, analyticsVars>>

CountTotal ==
    /\ stats.pc = "counting"
    /\ stats.total = None
    /\ stats' = [stats EXCEPT !.total = Some(CountDocuments(store, AnyBook))]
    /\ UNCHANGED <<pipelineVars, retryVars, analyticsVars>>

CountProcessed ==
    /\ stats.pc = "counting"
    /\ stats.processed = None
    /\ stats' = [stats EXCEPT
          !.processed = Some(CountDocuments(store, ProcessedBook))]
    /\ UNCHANGED <<pipelineVars, retryVars, analyticsVars>>

CountFailed ==
    /\ stats.pc = "counting"
    /\ stats.failed = None
    /\ stats' = [stats EXCEPT !.failed = Some(CountDocuments(store, FailedBook))]
    /\ UNCHANGED <<pipelineVars, retryVars, analyticsVars>>

\* The three queries have answered: getMLStats returns.
MLStats(total, processed, failed) ==
    [total |-> total, processed |-> processed, failed |-> failed,
     pending |-> total - processed - failed]

StatsReturn ==
    /\ stats.pc = "counting"
    /\ stats.total # None /\ stats.processed # None /\ stats.failed # None
    /\ stats' = [stats EXCEPT
          !.pc = "done",
          !.result = Some(MLStats(The(stats.total), The(stats.processed),
                                  The(stats.failed)))]
    /\ UNCHANGED <<pipelineVars, retryVars, analyticsVars>>

\* getMLStats is called once while books 1 and 2 are stored in any status and
\* book 1 is processed again, one awaited call after the other.
StatsInit ==
    /\ \E d, e \in StoredDocs :
          /\ store = [id \in BookIds |-> IF id = 1 THEN Some(d) ELSE Some(e)]
          /\ searchIndex = {id \in BookIds : store[id] = Some(ProcessedDoc)}
    /\ clock = 1
    /\ task = [t \in Tasks |-> IdleFrame]
    /\ log = [t \in Tasks |-> <<>>]
    /\ started = 0
    /\ batch = IdleBatch
    /\ rs = [EmbedRetry EXCEPT !.state = "idle"]
    /\ fnTrace = <<>>
    /\ sleeps = <<>>
    /\ observed = <<>>
    /\ condition = None
    /\ stats = IdleStats
    /\ AnalyticsIdle

StatsNext ==
    \/ \E t \in Tasks : AwaitedCall(t, 1)
    \/ \E t \in Tasks : CallStep(t)
    \/ GetMLStats
    \/ CountTotal
    \/ CountProcessed
    \/ CountFailed
    \/ StatsReturn

StatsSpec == StatsInit /\ [][StatsNext]_vars

----------------------------------------------------------------------------
(* tokenize *)

\* The characters \s matches, among those of the texts of the model.
Whitespace == {" ", "\n"}

IsLowerLetter(c) == \E k \in DOMAIN LowerCase : LowerCase[k] = c

\* .replace(/[^a-z\s]/g, "")
StripNonLetters(str) ==
    SelectSeq(str, LAMBDA c : IsLowerLetter(c) \/ c \in Whitespace)

\* .split(/\s+/): the pieces between the runs of whitespace; a run at an end
\* of the string leaves an empty piece there.
RECURSIVE SplitAt(_, _, _)
SplitAt(str, i, piece) ==
    IF i > Len(str) THEN <<piece>>
    ELSE IF str[i] \in Whitespace
    THEN LET j == CHOOSE k \in (i + 1)..(Len(str) + 1) :
                      /\ \A m \in i..(k - 1) : str[m] \in Whitespace
                      /\ k = Len(str) + 1 \/ str[k] \notin Whitespace
         IN <<piece>> \o SplitAt(str, j, <<>>)
    ELSE SplitAt(str, i + 1, Append(piece, str[i]))

Split(str) == SplitAt(str, 1, <<>>)

\* The words of ./stopwords.
STOP_WORDS == { <<"a", "l", "l">>, <<"t", "h", "e">> }

\* .filter((word) => word.length > 2 && !STOP_WORDS.has(word))
KeepAll(word) == TRUE
Keep(word) == Len(word) > 2 /\ word \notin STOP_WORDS

Tokenize(text) ==
    SelectSeq(Split(StripNonLetters(ToLowerCase(text))), Keep)

\* tokenize(text) is called on any text of at most MaxTextLen characters:
\* letters in both cases, whitespace, and a character that is neither.
TextChars == {"a", "l", "A", " ", "1"}

TextsUpTo(len) == UNION {[1..n -> TextChars] : n \in 0..len}

TokenizeInit ==
    /\ fnCall \in {[text |-> t, result |-> None] : t \in TextsUpTo(MaxTextLen)}
    /\ globalFrequency = <<>>
    /\ upload = <<>>
    /\ heap = IdleHeap
    /\ pages = {}
    /\ StatsIdle
    /\ PipelineInit
    /\ rs = [EmbedRetry EXCEPT !.state = "idle"]
    /\ fnTrace = <<>>
    /\ sleeps = <<>>
    /\ observed = <<>>
    /\ condition = None
    /\ CatalogIdle

CallTokenize ==
    /\ fnCall.result = None
    /\ fnCall' = [fnCall EXCEPT !.result = Some(Tokenize(fnCall.text))]
    /\ UNCHANGED <<globalFrequency, upload, heap, pages>>
    /\ UNCHANGED <<pipelineVars, retryVars, statsVars, catalogVars>>

TokenizeNext == CallTokenize

TokenizeSpec == TokenizeInit /\ [][TokenizeNext]_vars

----------------------------------------------------------------------------
(* wordFrequency: the table, analyzePage, getTopWords *)

\* globalFrequency is a Map: a sequence of <<word, count>> entries in the
\* order of insertion, no word twice.
Has(freq, word) == \E i \in DOMAIN freq : freq[i][1] = word

\* globalFrequency.get(word) || 0
Get(freq, word) ==
    IF Has(freq, word)
    THEN freq[CHOOSE i \in DOMAIN freq : freq[i][1] = word][2]
    ELSE 0

\* globalFrequency.set(word, count): the entry of a word that is in the Map
\* keeps its place.
Set(freq, word, count) ==
    IF Has(freq, word)
    THEN [freq EXCEPT ![CHOOSE i \in DOMAIN freq : freq[i][1] = word] =
              <<word, count>>]
    ELSE Append(freq, <<word, count>>)

\* for (const word of tokens) globalFrequency.set(word, get(word) + 1)
SetOne(freq, word) == Set(freq, word, 1)
Increment(freq, word) == Set(freq, word, Get(freq, word) + 1)

RECURSIVE CountWords(_, _)
CountWords(freq, tokens) ==
    IF tokens = <<>> THEN freq
    ELSE CountWords(Increment(freq, Head(tokens)), Tail(tokens))

AnalyzePageFresh(freq, text) == CountWords(<<>>, Tokenize(text))
AnalyzePage(freq, text) == CountWords(freq, Tokenize(text))

\* resetFrequency()
ResetFrequency == <<>>

\* Array.prototype.sort((a, b) => b[1] - a[1]): by count, descending; the
\* sort is stable, entries of equal count keep their order.
InsertDescending(sorted, entry) ==
    LET k == Cardinality({i \in DOMAIN sorted : sorted[i][2] >= entry[2]})
    IN SubSeq(sorted, 1, k) \o <<entry>> \o SubSeq(sorted, k + 1, Len(sorted))

RECURSIVE SortDescending(_)
SortDescending(entries) ==
    IF entries = <<>> THEN <<>>
    ELSE InsertDescending(SortDescending(SubSeq(entries, 1, Len(entries) - 1)),
                          entries[Len(entries)])

\* Array.prototype.slice(0, end): a negative end counts from the end of the
\* array.
Slice(array, end) ==
    SubSeq(array, 1,
           IF end < 0
           THEN (IF Len(array) + end < 0 THEN 0 ELSE Len(array) + end)
           ELSE Min(end, Len(array)))

\* .map(([word, count]) => ({word, count}))
WordCounts(entries) ==
    [i \in DOMAIN entries |-> [word |-> entries[i][1], count |-> entries[i][2]]]

GetTopWords(freq, topN) == WordCounts(Slice(SortDescending(freq), topN))

\* The state of the rest of the program while the word frequencies of a text
\* are computed.
ElsewhereIdle ==
    /\ StatsIdle
    /\ PipelineInit
    /\ rs = [EmbedRetry EXCEPT !.state = "idle"]
    /\ fnTrace = <<>>
    /\ sleeps = <<>>
    /\ observed = <<>>
    /\ condition = None

\* A text of at most MaxPagesLen letters and spaces is cut into at most
\* MaxChunks chunks at any places, and analyzePage is called once on each chunk, in any order,
\* from a reset table.
PageChars == {"a", " "}

PageTexts(len) == UNION {[1..n -> PageChars] : n \in 0..len}

\* The chunks of a text cut after each of the places of cuts.
Chunks(text, cuts) ==
    LET ends == cuts \cup {Len(text)}
        EndOf(k) == CHOOSE e \in ends : Cardinality({d \in ends : d < e}) = k - 1
        StartOf(k) == IF k = 1 THEN 1 ELSE EndOf(k - 1) + 1
    IN [k \in 1..Cardinality(ends) |-> SubSeq(text, StartOf(k), EndOf(k))]

PagesInit ==
    /\ \E text \in PageTexts(MaxPagesLen) :
          \E cuts \in SUBSET (1..(Len(text) - 1)) :
              /\ Cardinality(cuts) < MaxChunks
              /\ pages = [chunks |-> Chunks(text, cuts), recorded |-> {}]
    /\ globalFrequency = ResetFrequency
    /\ upload = <<>>
    /\ heap = IdleHeap
    /\ fnCall = {}
    /\ ElsewhereIdle
    /\ CatalogIdle

AnalyzeChunk ==
    /\ \E i \in DOMAIN pages.chunks \ pages.recorded :
          /\ globalFrequency' = AnalyzePage(globalFrequency, pages.chunks[i])
          /\ pages' = [pages EXCEPT !.recorded = @ \cup {i}]
    /\ UNCHANGED <<upload, heap, fnCall>>
    /\ UNCHANGED <<pipelineVars, retryVars, statsVars, catalogVars>>

PagesNext == AnalyzeChunk

PagesSpec == PagesInit /\ [][PagesNext]_vars

----------------------------------------------------------------------------
(* MinHeap *)

\* this.data[index], indices from 0.
At(data, index) == data[index + 1]

\* [data[i], data[j]] = [data[j], data[i]]
Swap(data, i, j) ==
    [data EXCEPT ![i + 1] = At(data, j), ![j + 1] = At(data, i)]

\* compare(a, b): min-heap by count.
Compare(a, b) == a[2] - b[2]

RECURSIVE BubbleUp(_, _)
BubbleUp(data, index) ==
    IF index > 0
    THEN LET parent == (index - 1) \div 2 IN
         IF Compare(At(data, index), At(data, parent)) < 0
         THEN BubbleUp(Swap(data, index, parent), parent)
         ELSE data
    ELSE data

RECURSIVE BubbleDown(_, _)
BubbleDown(data, index) ==
    LET n == Len(data)
        left == index * 2 + 1
        right == left + 1
        first == IF left < n /\ Compare(At(data, left), At(data, index)) < 0
                 THEN left ELSE index
        smallest == IF right < n /\ Compare(At(data, right), At(data, first)) < 0
                    THEN right ELSE first
    IN IF smallest # index
       THEN BubbleDown(Swap(data, index, smallest), smallest)
       ELSE data

\* push(item)
PushNoBubble(data, item) == Append(data, item)
Push(data, item) == BubbleUp(Append(data, item), Len(data))

\* pop(): the data left in the heap (the entry returned is data[0]).
PopLast(data) == SubSeq(data, 1, Len(data) - 1)
Pop(data) ==
    LET n == Len(data)
        last == data[n]
        rest == SubSeq(data, 1, n - 1)
    IN IF n = 0 THEN data
       ELSE IF n > 1 THEN BubbleDown([rest EXCEPT ![1] = last], 0)
       ELSE rest

----------------------------------------------------------------------------
(* getTopWordsHeap, one step per push and per pop, and getTopWords *)

\* getTopWordsHeap(topN) is called.
HeapCall ==
    /\ heap.pc = "idle"
    /\ heap' = IF heap.topN <= 0
               THEN [heap EXCEPT !.pc = "done", !.result = Some(<<>>)]
               ELSE [heap EXCEPT !.pc = "push", !.next = 1, !.data = <<>>]
    /\ UNCHANGED <<globalFrequency, upload, fnCall, pages>>
    /\ UNCHANGED <<pipelineVars, retryVars, statsVars, catalogVars>>

\* for (const entry of globalFrequency.entries()) heap.push(entry)
HeapPush ==
    /\ heap.pc = "push"
    /\ heap.next <= Len(globalFrequency)
    /\ heap' = [heap EXCEPT !.pc = "trim",
                            !.data = Push(@, globalFrequency[heap.next])]
    /\ UNCHANGED <<globalFrequency, upload, fnCall, pages>>
    /\ UNCHANGED <<pipelineVars, retryVars, statsVars, catalogVars>>

\* if (heap.size() > topN) heap.pop()
HeapTrim ==
    /\ heap.pc = "trim"
    /\ heap' = [heap EXCEPT
          !.pc = "push",
          !.next = @ + 1,
          !.data = IF Len(@) > heap.topN THEN Pop(@) ELSE @]
    /\ UNCHANGED <<globalFrequency, upload, fnCall, pages>>
    /\ UNCHANGED <<pipelineVars, retryVars, statsVars, catalogVars>>

\* return heap.toArray().sort((a, b) => b[1] - a[1]).map(...)
HeapReturn ==
    /\ heap.pc = "push"
    /\ heap.next > Len(globalFrequency)
    /\ heap' = [heap EXCEPT
          !.pc = "done",
          !.result = Some(WordCounts(SortDescending(heap.data)))]
    /\ UNCHANGED <<globalFrequency, upload, fnCall, pages>>
    /\ UNCHANGED <<pipelineVars, retryVars, statsVars, catalogVars>>

\* getTopWords(topN) is called.
CallGetTopWords ==
    /\ fnCall.result = None
    /\ fnCall' = [fnCall EXCEPT
          !.result = Some(GetTopWords(globalFrequency, fnCall.topN))]
    /\ UNCHANGED <<globalFrequency, upload, heap, pages>>
    /\ UNCHANGED <<pipelineVars, retryVars, statsVars, catalogVars>>

\* The words of a table are tokens: the i-th inserted is a word of i + 2
\* letters.
WordOf(i) == [k \in 1..(i + 2) |-> "a"]

\* The tables of at most MaxWords words, each counted at most MaxCount times.
Tables ==
    UNION {{[i \in 1..n |-> <<WordOf(i), counts[i]>>] :
                counts \in [1..n -> 1..MaxCount]} : n \in 0..MaxWords}

\* Both functions are called with one topN, from -2 to one more than the
\* table can hold, on any table.
TopNs == (0 - 2)..(MaxWords + 1)

TopKInit ==
    /\ globalFrequency \in Tables
    /\ \E topN \in TopNs :
          /\ heap = [IdleHeap EXCEPT !.topN = topN]
          /\ fnCall = [topN |-> topN, result |-> None]
    /\ upload = <<>>
    /\ pages = {}
    /\ ElsewhereIdle
    /\ CatalogIdle

TopKNext ==
    \/ HeapCall
    \/ HeapPush
    \/ HeapTrim
    \/ HeapReturn
    \/ CallGetTopWords

TopKSpec == TopKInit /\ [][TopKNext]_vars

----------------------------------------------------------------------------
(* analyzeBookFromUpload: one frame per run *)

Uploads == 1..MaxUploads

\* The pages of the uploaded PDFs: one word; two pages; a page of two words.
Pdfs ==
    { <<WordOf(1)>>,
      <<WordOf(1), WordOf(2)>>,
      <<WordOf(2) \o <<" ">> \o WordOf(2), WordOf(1)>> }

\* The (title, author) pairs of the uploads.
Titles == 1..MaxTitles

\* A document of the Book collection: _id, the (title, author) pair, and the
\* fields the schema gives; embedding and indexedAt default to null.
BookDoc(id, key, s3Key, topWords, totalWords, analysisProgress) ==
    [id |-> id, key |-> key, s3Key |-> s3Key, topWords |-> topWords,
     totalWords |-> totalWords, analysisProgress |-> analysisProgress,
     embedding |-> None, indexedAt |-> None]

\* The positions of the documents of a (title, author) pair.
Matching(bs, key) == {i \in DOMAIN bs : bs[i].key = key}
First(S) == CHOOSE i \in S : \A j \in S : i <= j

\* Book.findOne({title, author})
FindOne(bs, key) ==
    IF Matching(bs, key) = {} THEN None ELSE Some(bs[First(Matching(bs, key))])

\* existingBook && existingBook.topWords?.length
IsAnalysed(existing) == existing # None /\ Len(The(existing).topWords) # 0

\* result.reduce((sum, item) => sum + item.count, 0)
RECURSIVE TotalWords(_)
TotalWords(result) ==
    IF result = <<>> THEN 0
    ELSE TotalWords(SubSeq(result, 1, Len(result) - 1)) + result[Len(result)].count

\* Book.create({...}): a new document, whatever the collection holds.
BookCreate(bs, key, s3Key, topWords, totalWords) ==
    Append(bs, BookDoc(Len(bs) + 1, key, s3Key, topWords, totalWords, 100))

\* Book.findOneAndUpdate({title, author}, {...}, {upsert: true, new: true}):
\* the matching document takes the fields of the update and keeps the others;
\* without a match the document is inserted.  The unique index on (title,
\* author) makes the server run concurrent upserts of one pair one after the
\* other.
FindOneAndUpdate(bs, key, s3Key, topWords, totalWords) ==
    IF Matching(bs, key) = {}
    THEN Append(bs, BookDoc(Len(bs) + 1, key, s3Key, topWords, totalWords, 100))
    ELSE [bs EXCEPT ![First(Matching(bs, key))] =
            [@ EXCEPT !.s3Key = s3Key, !.topWords = topWords,
                      !.totalWords = totalWords, !.analysisProgress = 100]]

\* book.save() after book.embedding = ...: the modified path is written to the
\* document of the same _id.
BookSave(bs, book) ==
    [i \in DOMAIN bs |->
        IF bs[i].id = book.id THEN [bs[i] EXCEPT !.embedding = book.embedding]
        ELSE bs[i]]

\* The frame of a run that is not under way.  key: the (title, author) pair;
\* book: the document the run holds (existingBook, or the result of
\* findOneAndUpdate); embeddings and mlError: how embedBookAutomatically
\* settled; outcome: how the run's promise settled.
IdleUpload(pdf, topN, key) ==
    [pc |-> "idle", pdf |-> pdf, topN |-> topN, key |-> key, next |-> 0,
     topWords |-> None, totalWords |-> 0, book |-> None, embeddings |-> None,
     mlError |-> None, outcome |-> "none"]

\* analyzeBookFromUpload(file, title, author, topN) is called: it awaits
\* Book.findOne({title, author}).
UploadCall(r) ==
    /\ upload[r].pc = "idle"
    /\ upload' = [upload EXCEPT ![r].pc = "find"]
    /\ UNCHANGED <<globalFrequency, heap, fnCall, pages, catalogVars>>
    /\ UNCHANGED <<pipelineVars, retryVars, statsVars>>

\* findOne has resolved: an analysed book is returned as it is; otherwise the
\* run awaits file.arrayBuffer() and s3.send(PutObjectCommand).
AfterFindOne(f, existing) ==
    IF IsAnalysed(existing)
    THEN [f EXCEPT !.pc = "cached", !.book = existing, !.outcome = "returned"]
    ELSE [f EXCEPT !.pc = "s3"]

UploadFound(r) ==
    /\ upload[r].pc = "find"
    /\ upload' = [upload EXCEPT ![r] = AfterFindOne(@, FindOne(books, upload[r].key))]
    /\ UNCHANGED <<globalFrequency, heap, fnCall, pages, catalogVars>>
    /\ UNCHANGED <<pipelineVars, retryVars, statsVars>>

\* s3.send has resolved, the object is stored under the run's key:
\* resetFrequency(), and extractTextFromBuffer runs up to its first await.
UploadReset(r) ==
    /\ upload[r].pc = "s3"
    /\ bucket' = bucket \cup {r}
    /\ globalFrequency' = ResetFrequency
    /\ upload' = [upload EXCEPT ![r].pc = "extract", ![r].next = 1]
    /\ UNCHANGED <<heap, fnCall, pages, books, mlRequests, embedIndex>>
    /\ UNCHANGED <<pipelineVars, retryVars, statsVars>>

\* The text of the next page has been extracted (await page.getTextContent):
\* onPageExtracted(pageText) calls analyzePage(pageText).
UploadPage(r) ==
    /\ upload[r].pc = "extract"
    /\ upload[r].next <= Len(upload[r].pdf)
    /\ globalFrequency' = AnalyzePage(globalFrequency, upload[r].pdf[upload[r].next])
    /\ upload' = [upload EXCEPT ![r].next = @ + 1]
    /\ UNCHANGED <<heap, fnCall, pages, catalogVars>>
    /\ UNCHANGED <<pipelineVars, retryVars, statsVars>>

\* extractTextFromBuffer has resolved: result = getTopWords(topN), totalWords
\* is the sum of its counts, and the run awaits Book.findOneAndUpdate.
UploadResult(r) ==
    /\ upload[r].pc = "extract"
    /\ upload[r].next > Len(upload[r].pdf)
    /\ LET result == GetTopWords(globalFrequency, upload[r].topN) IN
       upload' = [upload EXCEPT
          ![r].pc = "upsert",
          ![r].topWords = Some(result),
          ![r].totalWords = TotalWords(result)]
    /\ UNCHANGED <<globalFrequency, heap, fnCall, pages, catalogVars>>
    /\ UNCHANGED <<pipelineVars, retryVars, statsVars>>

\* findOneAndUpdate has resolved with the document after the update, and
\* embedBookAutomatically sends its request to the ML service.
UploadUpsert(r) ==
    /\ upload[r].pc = "upsert"
    /\ books' = FindOneAndUpdate(books, upload[r].key, r, The(upload[r].topWords),
                                 upload[r].totalWords)
    /\ LET at == Matching(books', upload[r].key)
           last == CHOOSE i \in at : \A j \in at : j <= i
       IN upload' = [upload EXCEPT ![r].pc = "ml", ![r].book = Some(books'[last])]
    /\ mlRequests' = mlRequests \cup {r}
    /\ UNCHANGED <<globalFrequency, heap, fnCall, pages, bucket, embedIndex>>
    /\ UNCHANGED <<pipelineVars, retryVars, statsVars>>

\* embedBookAutomatically has returned the response body: book.embedding is
\* assigned and the run awaits book.save().
AfterEmbedded(f, embeddings) ==
    [f EXCEPT !.pc = "save", !.embeddings = Some(embeddings),
              !.book = Some([The(f.book) EXCEPT !.embedding = Some(embeddings.embedding)])]

\* embedBookAutomatically has thrown (the request failed, or the response was
\* not ok): the error is logged and the book returned.
AfterEmbedFailedRethrow(f, error) ==
    [f EXCEPT !.pc = "done", !.mlError = Some(error), !.book = None,
              !.outcome = "raised"]
AfterEmbedFailed(f, error) ==
    [f EXCEPT !.pc = "done", !.mlError = Some(error), !.outcome = "returned"]

UploadEmbedded(r) ==
    /\ upload[r].pc = "ml"
    /\ \/ upload' = [upload EXCEPT ![r] = AfterEmbedded(@, [embedding |-> "v1"])]
       \/ upload' = [upload EXCEPT ![r] = AfterEmbedFailed(@, Error("ML Service returned 500", 1))]
    /\ UNCHANGED <<globalFrequency, heap, fnCall, pages, catalogVars>>
    /\ UNCHANGED <<pipelineVars, retryVars, statsVars>>

\* book.save() has resolved: the book is returned.
UploadSave(r) ==
    /\ upload[r].pc = "save"
    /\ books' = BookSave(books, The(upload[r].book))
    /\ upload' = [upload EXCEPT ![r].pc = "done", ![r].outcome = "returned"]
    /\ UNCHANGED <<globalFrequency, heap, fnCall, pages, bucket, mlRequests, embedIndex>>
    /\ UNCHANGED <<pipelineVars, retryVars, statsVars>>

\* The collection before the runs: empty, or holding a book of the first
\* (title, author) pair, analysed or saved with no top words.
AnalysedBook ==
    BookDoc(1, 1, 0, <<[word |-> WordOf(1), count |-> 2]>>, 2, 100)
EmptyBook == BookDoc(1, 1, 0, <<>>, 0, 100)
Collections == {<<>>, <<AnalysedBook>>, <<EmptyBook>>}

UploadInit ==
    /\ upload \in [Uploads ->
          {IdleUpload(pdf, topN, key) : pdf \in Pdfs, topN \in 1..2, key \in Titles}]
    /\ books \in Collections
    /\ bucket = {}
    /\ mlRequests = {}
    /\ embedIndex = <<>>
    /\ globalFrequency = <<>>
    /\ heap = IdleHeap
    /\ fnCall = {}
    /\ pages = {}
    /\ ElsewhereIdle

UploadNext ==
    \E r \in Uploads :
        \/ UploadCall(r)
        \/ UploadFound(r)
        \/ UploadReset(r)
        \/ UploadPage(r)
        \/ UploadResult(r)
        \/ UploadUpsert(r)
        \/ UploadEmbedded(r)
        \/ UploadSave(r)

UploadSpec == UploadInit /\ [][UploadNext]_vars

----------------------------------------------------------------------------
(* embedBook, indexBook and embedAndIndexBook *)

Calls == 1..MaxCalls

\* Book.updateOne({_id: bookId}, {embedding}): the document of that _id takes
\* the field; without such a document nothing is written and nothing thrown.
UpdateEmbedding(bs, bookId, embedding) ==
    [i \in DOMAIN bs |->
        IF bs[i].id = bookId THEN [bs[i] EXCEPT !.embedding = Some(embedding)]
        ELSE bs[i]]

\* Book.updateOne({_id: bookId}, {indexedAt: new Date()})
UpdateIndexedAt(bs, bookId, date) ==
    [i \in DOMAIN bs |->
        IF bs[i].id = bookId THEN [bs[i] EXCEPT !.indexedAt = Some(date)]
        ELSE bs[i]]

\* The frame of an embedAndIndexBook call, with those of the embedBook and
\* indexBook calls it awaits.  embedding: what mlClient.embed returned;
\* persisted: the updateOne of embedBook resolved; success: what
\* mlClient.indexAdd returned; stamped: the updateOne of indexBook resolved;
\* result and error: how the call settled.
IdleEmbedIndex ==
    [pc |-> "idle", bookId |-> 0, embedding |-> None, persisted |-> FALSE,
     success |-> None, stamped |-> FALSE, result |-> None, error |-> None]

\* embedAndIndexBook(bookId, ...) is called: embedBook awaits mlClient.embed.
EmbedAndIndexBook(c, bookId) ==
    /\ embedIndex[c].pc = "idle"
    /\ embedIndex' = [embedIndex EXCEPT ![c].pc = "embed", ![c].bookId = bookId]
    /\ UNCHANGED <<books, bucket, mlRequests>>
    /\ UNCHANGED <<globalFrequency, upload, heap, fnCall, pages>>
    /\ UNCHANGED <<pipelineVars, retryVars, statsVars>>

\* The catch blocks of embedBook and of embedAndIndexBook: embedBook throws
\* new Error("Failed to embed book"), which embedAndIndexBook rethrows.
EmbedFailureIgnored(f) == [f EXCEPT !.pc = "index"]
EmbedFailure(f) ==
    [f EXCEPT !.pc = "done", !.error = Some("Failed to embed book")]

\* indexBook throws new Error("Failed to index book"), rethrown likewise.
IndexFailure(f) ==
    [f EXCEPT !.pc = "done", !.error = Some("Failed to index book")]

\* mlClient.embed settles: embedBook awaits Book.updateOne with the vector
\* returned (v2; the stored books hold v1), or throws.
EmbedSettles(c) ==
    /\ embedIndex[c].pc = "embed"
    /\ \/ embedIndex' = [embedIndex EXCEPT ![c].pc = "persist",
                                           ![c].embedding = Some("v2")]
       \/ embedIndex' = [embedIndex EXCEPT ![c] = EmbedFailure(@)]
    /\ UNCHANGED <<books, bucket, mlRequests>>
    /\ UNCHANGED <<globalFrequency, upload, heap, fnCall, pages>>
    /\ UNCHANGED <<pipelineVars, retryVars, statsVars>>

\* The updateOne of embedBook settles: embedBook returns the embedding and
\* indexBook awaits mlClient.indexAdd; or the write is rejected and embedBook
\* throws.
PersistSettles(c) ==
    /\ embedIndex[c].pc = "persist"
    /\ \/ /\ books' = UpdateEmbedding(books, embedIndex[c].bookId,
                                      The(embedIndex[c].embedding))
          /\ embedIndex' = [embedIndex EXCEPT ![c].pc = "index",
                                              ![c].persisted = TRUE]
       \/ /\ embedIndex' = [embedIndex EXCEPT ![c] = EmbedFailure(@)]
          /\ UNCHANGED books
    /\ UNCHANGED <<bucket, mlRequests>>
    /\ UNCHANGED <<globalFrequency, upload, heap, fnCall, pages>>
    /\ UNCHANGED <<pipelineVars, retryVars, statsVars>>

\* mlClient.indexAdd settles: on true indexBook awaits Book.updateOne; on
\* false it returns false and embedAndIndexBook returns {embedding, indexed};
\* or it throws.
AfterIndexAdd(f, success) ==
    IF success
    THEN [f EXCEPT !.pc = "stamp", !.success = Some(success)]
    ELSE [f EXCEPT !.pc = "done", !.success = Some(success),
                   !.result = Some([embedding |-> The(f.embedding),
                                    indexed |-> success])]

IndexSettles(c) ==
    /\ embedIndex[c].pc = "index"
    /\ \/ \E success \in BOOLEAN :
             embedIndex' = [embedIndex EXCEPT ![c] = AfterIndexAdd(@, success)]
       \/ embedIndex' = [embedIndex EXCEPT ![c] = IndexFailure(@)]
    /\ UNCHANGED <<books, bucket, mlRequests>>
    /\ UNCHANGED <<globalFrequency, upload, heap, fnCall, pages>>
    /\ UNCHANGED <<pipelineVars, retryVars, statsVars>>

\* The updateOne of indexBook settles: indexBook returns true and
\* embedAndIndexBook returns; or the write is rejected and indexBook throws.
\* The date written is told apart by the call that wrote it.
StampSettles(c) ==
    /\ embedIndex[c].pc = "stamp"
    /\ \/ /\ books' = UpdateIndexedAt(books, embedIndex[c].bookId, c)
          /\ embedIndex' = [embedIndex EXCEPT
                ![c].pc = "done", ![c].stamped = TRUE,
                ![c].result = Some([embedding |-> The(embedIndex[c].embedding),
                                    indexed |-> TRUE])]
       \/ /\ embedIndex' = [embedIndex EXCEPT ![c] = IndexFailure(@)]
          /\ UNCHANGED books
    /\ UNCHANGED <<bucket, mlRequests>>
    /\ UNCHANGED <<globalFrequency, upload, heap, fnCall, pages>>
    /\ UNCHANGED <<pipelineVars, retryVars, statsVars>>

\* The stored books before the calls: analysed, and either without embedding,
\* or embedded, or embedded and indexed (by an earlier call, date 0).
StoredBook(id) == BookDoc(id, id, 0, <<[word |-> WordOf(1), count |-> 2]>>, 2, 100)
StoredBooks(id) ==
    { StoredBook(id),
      [StoredBook(id) EXCEPT !.embedding = Some("v1")],
      [StoredBook(id) EXCEPT !.embedding = Some("v1"), !.indexedAt = Some(0)] }

\* The calls are made for stored books and for an _id that no book has.
EmbedIndexInit ==
    /\ \E n \in 0..MaxStored :
          books \in {bs \in [1..n -> UNION {StoredBooks(id) : id \in 1..n}] :
                        \A i \in 1..n : bs[i].id = i}
    /\ embedIndex = [c \in Calls |-> IdleEmbedIndex]
    /\ bucket = {}
    /\ mlRequests = {}
    /\ globalFrequency = <<>>
    /\ upload = <<>>
    /\ heap = IdleHeap
    /\ fnCall = {}
    /\ pages = {}
    /\ ElsewhereIdle

EmbedIndexNext ==
    \/ \E c \in Calls, bookId \in 1..(MaxStored + 1) : EmbedAndIndexBook(c, bookId)
    \/ \E c \in Calls : EmbedSettles(c)
    \/ \E c \in Calls : PersistSettles(c)
    \/ \E c \in Calls : IndexSettles(c)
    \/ \E c \in Calls : StampSettles(c)

EmbedIndexSpec == EmbedIndexInit /\ [][EmbedIndexNext]_vars

----------------------------------------------------------------------------
(* Reading a call's log and the collection *)

Doc(id) == The(store[id])
Ops(t, op) == {i \in DOMAIN log[t] : log[t][i].op = op}
OkOps(t, op) == {i \in Ops(t, op) : log[t][i].ok}
FailedOps(t, op) == {i \in Ops(t, op) : ~log[t][i].ok}
Settled(t) == task[t].pc = "done"
\* The vector returned by the call's successful embedBook invocation.
Embedded(t) == log[t][CHOOSE i \in OkOps(t, "embedBook") : TRUE].data
\* The writes of the call that store an embedding, and those that set
\* mlProcessed to true.
EmbeddingWrites(t) ==
    {i \in Ops(t, "updateOne") : "embedding" \in DOMAIN The(log[t][i].data)}
ProcessedWrites(t) ==
    {i \in Ops(t, "updateOne") :
        /\ "mlProcessed" \in DOMAIN The(log[t][i].data)
        /\ The(log[t][i].data).mlProcessed}
LoadedNothing(t) ==
    /\ Ops(t, "findById") # {}
    /\ FailedOps(t, "findById") # {}

----------------------------------------------------------------------------
(* Claims about processBookForML (enqueue), under SeqSpec *)

\* C1 (as stated): within one call, a write that sets mlProcessed to true
\* happens only after an addToIndex invocation of that call has succeeded; in
\* particular the write that follows the successful embed leaves it false.
C1_TwoPhaseCompletion ==
    \A t \in Tasks : \A i \in ProcessedWrites(t) :
        \E j \in OkOps(t, "addToIndex") : j < i

\* C2 (as stated): a document's embedding is present if and only if
\* mlProcessed is true and mlError is absent.
C2_EmbeddingIffProcessed ==
    \A id \in BookIds : store[id] # None =>
        (Doc(id).embedding # None <=>
            (Doc(id).mlProcessed /\ Doc(id).mlError = None))

\* C2 (amended): whenever mlProcessed is true, the embedding is present and
\* mlError is absent.
C2_ProcessedImpliesEmbedding ==
    \A id \in BookIds : store[id] # None /\ Doc(id).mlProcessed =>
        (Doc(id).embedding # None /\ Doc(id).mlError = None)

\* C2 witness: the only document there is has had its embedding saved by two
\* calls and holds mlProcessed true after the second has settled.
C2_Witness ==
    \E id \in BookIds :
        /\ store[id] # None
        /\ \A j \in BookIds \ {id} : store[j] = None
        /\ Doc(id).mlProcessed
        /\ Doc(id).mlProcessedAt = Some(2)
        /\ \E t \in Tasks : Settled(t) /\ task[t].bookId = id

\* C3: when a call whose embedBook succeeded and whose addToIndex failed on all
\* 3 attempts has settled, the document holds the vector embedBook returned,
\* mlProcessed is false and mlError is the message of the addToIndex failure.
C3_PartialSuccess ==
    \A t \in Tasks :
        ( /\ Settled(t)
          /\ OkOps(t, "embedBook") # {}
          /\ OkOps(t, "addToIndex") = {}
          /\ Cardinality(FailedOps(t, "addToIndex")) = IndexMaxRetries )
        => /\ store[task[t].bookId] # None
           /\ Doc(task[t].bookId).embedding = Embedded(t)
           /\ Doc(task[t].bookId).mlProcessed = FALSE
           /\ Doc(task[t].bookId).mlError = Some(IndexErrorMessage)

\* C3 witness: such a call has settled, its embed having succeeded on the
\* third attempt.
C3_Witness ==
    \E t \in Tasks :
        /\ Settled(t)
        /\ Cardinality(FailedOps(t, "embedBook")) = 2
        /\ OkOps(t, "embedBook") # {}
        /\ Cardinality(FailedOps(t, "addToIndex")) = IndexMaxRetries

\* C4: when a call whose embedBook returned v and whose addToIndex succeeded
\* has settled, the document holds embedding v, mlProcessed true and no
\* mlError, whatever it held before the call.
C4_SuccessOutcome ==
    \A t \in Tasks :
        ( /\ Settled(t)
          /\ OkOps(t, "embedBook") # {}
          /\ OkOps(t, "addToIndex") # {} )
        => /\ store[task[t].bookId] # None
           /\ Doc(task[t].bookId).embedding = Embedded(t)
           /\ Doc(task[t].bookId).mlProcessed = TRUE
           /\ Doc(task[t].bookId).mlError = None

\* C4 witness: a call that succeeded after retries of both steps has settled,
\* on the only document there is, which an earlier call had already written.
C4_Witness ==
    \E t \in Tasks :
        /\ Settled(t)
        /\ FailedOps(t, "embedBook") # {}
        /\ FailedOps(t, "addToIndex") # {}
        /\ OkOps(t, "addToIndex") # {}
        /\ \A j \in BookIds \ {task[t].bookId} : store[j] = None
        /\ Doc(task[t].bookId).mlProcessedAt = Some(2)

\* C5: a call whose embedBook failed 3 times makes no fourth embedBook call
\* and no addToIndex call; it goes to the catch block and, once settled, has
\* rejected with the third failure's error and left mlProcessed false and
\* mlError equal to that error's message.
C5_EmbedFailure ==
    \A t \in Tasks :
        /\ Cardinality(Ops(t, "embedBook")) <= EmbedMaxRetries
        /\ Cardinality(FailedOps(t, "embedBook")) = EmbedMaxRetries =>
              /\ Ops(t, "addToIndex") = {}
              /\ task[t].pc \in {"catch", "done"}
              /\ Settled(t) =>
                    /\ task[t].outcome = "rejected"
                    /\ task[t].error = Some(Error(EmbedErrorMessage, EmbedMaxRetries))
                    /\ store[task[t].bookId] # None
                    /\ Doc(task[t].bookId).mlProcessed = FALSE
                    /\ Doc(task[t].bookId).mlError = Some(EmbedErrorMessage)

\* C5 witness: a call has settled after three failed embedBook invocations, on
\* a document whose embedding an earlier call had saved.
C5_Witness ==
    \E t \in Tasks :
        /\ Settled(t)
        /\ Cardinality(FailedOps(t, "embedBook")) = EmbedMaxRetries
        /\ Doc(task[t].bookId).mlProcessedAt # None

\* C6 (as stated): a document has mlProcessedAt only if some call for it has
\* completed both embedBook and addToIndex successfully.
C6_ProcessedAtOnlyOnSuccess ==
    \A id \in BookIds : store[id] # None /\ Doc(id).mlProcessedAt # None =>
        id \in searchIndex

\* C7: within one call, every addToIndex invocation comes after the write of
\* the embedding, that write comes after a successful embedBook invocation,
\* and no embedBook invocation comes after an addToIndex invocation.
C7_StepOrdering ==
    \A t \in Tasks :
        /\ \A i \in Ops(t, "addToIndex") : \E j \in EmbeddingWrites(t) : j < i
        /\ \A i \in EmbeddingWrites(t) : \E j \in OkOps(t, "embedBook") : j < i
        /\ \A i \in Ops(t, "addToIndex") : \A j \in Ops(t, "embedBook") : j < i

\* C7 witness: a call has retried embedBook, written the embedding and
\* retried addToIndex.
C7_Witness ==
    \E t \in Tasks :
        /\ FailedOps(t, "embedBook") # {}
        /\ EmbeddingWrites(t) # {}
        /\ Cardinality(Ops(t, "addToIndex")) >= 2

\* C8: a call that found no document under its id makes no embedBook or
\* addToIndex invocation and rejects with the not-found error ...
C8_NotFoundNoCalls ==
    \A t \in Tasks : LoadedNothing(t) =>
        /\ Ops(t, "embedBook") = {}
        /\ Ops(t, "addToIndex") = {}
        /\ task[t].pc \in {"catch", "done"}
        /\ Settled(t) =>
              /\ task[t].outcome = "rejected"
              /\ task[t].error = Some(NotFoundError(task[t].bookId))

\* ... and no step of a processBookForML call creates a document.
C8_NoRecordCreated ==
    \A id \in BookIds :
        (store[id] = None /\ store'[id] # None) => UNCHANGED <<task, log>>

\* C8: processBookForML on an id with no stored document fails with the
\* not-found error, calls neither embedBook nor addToIndex, and creates no
\* document.
C8_NotFoundFailFast == []C8_NotFoundNoCalls /\ [][C8_NoRecordCreated]_vars

\* C8 witness: a call for a missing id has settled and the id is still
\* missing.
C8_Witness ==
    \E t \in Tasks :
        /\ Settled(t)
        /\ LoadedNothing(t)
        /\ Cardinality(Ops(t, "updateOne")) = 1
        /\ store[task[t].bookId] = None

----------------------------------------------------------------------------
(* Claims about retryWithBackoff, under RetrySpec *)

Failures == {i \in DOMAIN fnTrace : ~fnTrace[i].ok}

\* C9: fn is never invoked after it succeeded; the call does not give up
\* while attempts remain; and when fn fails f times and then succeeds the
\* call returns fn's value after exactly f + 1 invocations and f delays, each
\* at least the previous one and at most maxDelay.
C9_FailThenSucceed ==
    /\ \A i \in DOMAIN fnTrace : fnTrace[i].ok => i = Len(fnTrace)
    /\ (rs.state = "thrown" /\ rs.maxRetries >= 1) => Len(fnTrace) >= rs.maxRetries
    /\ rs.state = "returned" =>
          /\ fnTrace # <<>>
          /\ fnTrace[Len(fnTrace)].ok
          /\ rs.result = Some(fnTrace[Len(fnTrace)].value)
          /\ Len(fnTrace) = Cardinality(Failures) + 1
          /\ Len(sleeps) = Cardinality(Failures)
          /\ NonDecreasing(sleeps)
          /\ \A i \in DOMAIN sleeps : sleeps[i] <= rs.maxDelay

\* C9 witness: a call returned on its third attempt, after a first delay
\* below maxDelay and a second one capped at maxDelay.
C9_Witness ==
    /\ rs.state = "returned"
    /\ Len(fnTrace) = 3
    /\ Len(sleeps) = 2
    /\ sleeps[1] < sleeps[2]
    /\ sleeps[2] = rs.maxDelay
    /\ rs.initialDelay * rs.backoffMultiplier > rs.maxDelay

\* C10: with maxRetries = N >= 1 and fn failing every time, fn is invoked
\* exactly N times with N - 1 delays between, and the call throws the very
\* error of the Nth invocation.
C10_AlwaysFail ==
    rs.maxRetries >= 1 =>
        /\ Len(fnTrace) <= rs.maxRetries
        /\ (Cardinality(Failures) = rs.maxRetries) => rs.state = "thrown"
        /\ rs.state = "thrown" =>
              /\ Len(fnTrace) = rs.maxRetries
              /\ Failures = DOMAIN fnTrace
              /\ Len(sleeps) = rs.maxRetries - 1
              /\ rs.thrown = Some(fnTrace[rs.maxRetries].error)

\* C10 witness: a call with maxRetries = 3 threw after three failures whose
\* messages differ.
C10_Witness ==
    /\ rs.state = "thrown"
    /\ rs.maxRetries = 3
    /\ Len(fnTrace) = 3
    /\ fnTrace[1].error.message # fnTrace[3].error.message
    /\ fnTrace[2].error.message # fnTrace[3].error.message

\* The failed invocations that were not the last one allowed.
EarlyFailures == {i \in Failures : i < rs.maxRetries}

\* C11: a sleep follows every failed attempt i < maxRetries and no other
\* attempt; the i-th sleep lasts exactly
\* min(initialDelay * backoffMultiplier^(i-1), maxDelay); the delays never
\* decrease and none exceeds maxDelay.
C11_BackoffDelayFormula ==
    /\ Len(sleeps) = Cardinality(EarlyFailures)
    /\ \A i \in DOMAIN sleeps :
          /\ sleeps[i] = Min(rs.initialDelay * Pow(rs.backoffMultiplier, i - 1),
                             rs.maxDelay)
          /\ sleeps[i] <= rs.maxDelay
    /\ NonDecreasing(sleeps)

\* C11 witness: three attempts failed; the first delay was initialDelay, the
\* second initialDelay * backoffMultiplier, below maxDelay, and the third was
\* capped at maxDelay.
C11_Witness ==
    /\ Len(sleeps) = 3
    /\ sleeps[1] = rs.initialDelay
    /\ sleeps[1] < sleeps[2]
    /\ sleeps[2] < rs.maxDelay
    /\ sleeps[3] = rs.maxDelay
    /\ rs.initialDelay * Pow(rs.backoffMultiplier, 2) > rs.maxDelay

\* C12: when an onRetry callback was given it has been invoked exactly once
\* per failed attempt i < maxRetries, in order, with (i, the error of attempt
\* i), by the time the delay that follows attempt i is under way and so before
\* attempt i + 1; it is not invoked for a successful attempt nor for the
\* failure of the last attempt; without a callback nothing is invoked.
C12_RetryObserver ==
    /\ rs.hasOnRetry =>
          /\ Len(observed) = Cardinality(EarlyFailures)
          /\ Len(observed) = Len(sleeps)
          /\ \A i \in DOMAIN observed : observed[i] = <<i, fnTrace[i].error>>
    /\ ~rs.hasOnRetry => observed = <<>>

\* C12 witness: a call with a callback and maxRetries = 3 threw after three
\* failures; the callback saw the first two, whose messages differ.
C12_Witness ==
    /\ rs.hasOnRetry
    /\ rs.state = "thrown"
    /\ rs.maxRetries = 3
    /\ Len(fnTrace) = 3
    /\ Len(observed) = 2
    /\ observed[1][2].message # observed[2][2].message

\* C13 (as stated): in a call made through retryOnCondition, an error that
\* shouldRetry rejects ends the call at once: fn is not invoked again and the
\* call throws that error.
C13_RetryOnlyOnAccepted ==
    condition # None =>
        \A i \in Failures :
            ~ShouldRetry(The(condition), fnTrace[i].error) =>
                /\ i = Len(fnTrace)
                /\ rs.state = "thrown"
                /\ rs.thrown = Some(fnTrace[i].error)

----------------------------------------------------------------------------
(* Claims about reprocessFailedBooks *)

\* The collection as the query of the batch saw it, and the documents in it
\* with mlProcessed false and mlError present.
Scanned == The(batch.scanned)
FailedAtScan ==
    {id \in DOMAIN Scanned :
        /\ Scanned[id] # None
        /\ ~The(Scanned[id]).mlProcessed
        /\ The(Scanned[id]).mlError # None}
Range(seq) == {seq[i] : i \in DOMAIN seq}
\* The documents processBookForML has been called for by the batch.
Called == Range(batch.calls)

C15_BatchIsolation ==
    /\ batch.outcome # "rejected"
    /\ Len(batch.calls) <= Len(batch.failedBooks)
    /\ batch.calls = SubSeq(batch.failedBooks, 1, Len(batch.calls))
    /\ Cardinality(Called) = Len(batch.calls)
    /\ Len(batch.results) = (IF batch.pc = "await" THEN Len(batch.calls) - 1
                                                   ELSE Len(batch.calls))
    /\ batch.pc = "done" =>
          /\ batch.outcome = "resolved"
          /\ batch.calls = batch.failedBooks
          /\ Len(batch.results) = Len(batch.failedBooks)

\* C15 witness: the batch has returned after two calls, the first rejected
\* and the second resolved.
C15_Witness ==
    /\ batch.pc = "done"
    /\ batch.results = <<"rejected", "resolved">>

\* C16: processBookForML is called by the batch only for documents that at
\* the time of the query had mlProcessed false and mlError present; a
\* document that then was unprocessed without an error, or processed, is
\* never the subject of a call and keeps its content (as long as no
\* deleteBook request removes it).
C16_BatchSelection ==
    batch.scanned # None =>
        /\ Called \subseteq FailedAtScan
        /\ \A t \in Tasks : task[t].bookId \in FailedAtScan \cup {0}
        /\ \A id \in BookIds \ FailedAtScan : store[id] \in {Scanned[id], None}

\* C16 witness: the batch has returned after a call for a failed document,
\* and a document that was unprocessed without an error is as it was.
C16_Witness ==
    /\ batch.pc = "done"
    /\ batch.calls # <<>>
    /\ \E id \in BookIds \ FailedAtScan :
          /\ Scanned[id] = Some(PendingDoc)
          /\ store[id] = Some(PendingDoc)

----------------------------------------------------------------------------
(* Claims about calls that are not awaited, under RaceSpec *)

\* The update document of the last write of a call.
LastWrite(t) ==
    The(log[t][CHOOSE i \in Ops(t, "updateOne") :
                  \A j \in Ops(t, "updateOne") : j <= i].data)
\* The calls between their embedding step and the end of their index step.
BetweenEmbedAndIndex ==
    {t \in Tasks : task[t].pc \in {"saveEmbedding", "index", "indexSleep"}}

\* C17, in every state: once every call made for book 1 has settled, the
\* document's mlProcessed and mlError are those of the last write of one of
\* the calls, and its embedding is one that some call wrote (none when no
\* call wrote one).
C17_FinalIsSomeWrite ==
    ( /\ \A t \in Tasks : task[t].pc \in {"idle", "done"}
      /\ \E t \in Tasks : Settled(t) )
    => /\ \E t \in Tasks :
             /\ Settled(t)
             /\ \A f \in DOMAIN LastWrite(t) : Doc(1)[f] = LastWrite(t)[f]
       /\ IF \A t \in Tasks : EmbeddingWrites(t) = {}
          THEN Doc(1).embedding = None
          ELSE \E t \in Tasks : \E i \in EmbeddingWrites(t) :
                  Doc(1).embedding = The(log[t][i].data).embedding

\* C17, in every step: a write of a call replaces, in one step and whatever
\* the other calls are doing, exactly the fields its update names in the
\* document as it then is; no other step changes the document.
C17_AtomicWrites ==
    IF \E t \in Tasks :
          /\ Len(log'[t]) = Len(log[t]) + 1
          /\ log'[t][Len(log'[t])].op = "updateOne"
    THEN \A t \in Tasks :
            ( /\ Len(log'[t]) = Len(log[t]) + 1
              /\ log'[t][Len(log'[t])].op = "updateOne" ) =>
            LET update == The(log'[t][Len(log'[t])].data) IN
            \A f \in DOMAIN Doc(1) :
                The(store'[1])[f] = IF f \in DOMAIN update THEN update[f]
                                    ELSE Doc(1)[f]
    ELSE store' = store

\* C17: calls for the same book run with no mutual exclusion; each of their
\* writes is applied atomically to the document as the previous write left
\* it, so the last write applied decides the fields it names.
C17_ConcurrentEnqueue == []C17_FinalIsSomeWrite /\ [][C17_AtomicWrites]_vars

\* C17 witness: two calls for book 1 are both past their save of the
\* embedding and before the end of their index step; they saved different
\* vectors, and the document holds the one saved last.
C17_Witness ==
    \E t, u \in BetweenEmbedAndIndex :
        /\ t # u
        /\ task[t].pc = "index" /\ task[u].pc = "index"
        /\ Embedded(t) # Embedded(u)
        /\ LastWrite(t).mlProcessedAt = Some(1)
        /\ LastWrite(u).mlProcessedAt = Some(2)
        /\ Doc(1).embedding = Embedded(u)
        /\ Doc(1).mlProcessedAt = Some(2)

\* C18, in every state: a call makes at most 3 embedBook and at most 3
\* addToIndex invocations, and a call for an existing book that has settled
\* has written either the embedding with mlProcessed true (and has resolved,
\* after a successful addToIndex) or, as its last write, mlProcessed false
\* with the error's message (and has rejected).
C18_BoundedAndPersisted ==
    \A t \in Tasks :
        /\ Cardinality(Ops(t, "embedBook")) <= 3
        /\ Cardinality(Ops(t, "addToIndex")) <= 3
        /\ Settled(t) =>
              /\ store[task[t].bookId] # None
              /\ Ops(t, "updateOne") # {}
              /\ task[t].outcome = "resolved" =>
                    /\ OkOps(t, "addToIndex") # {}
                    /\ LastWrite(t).mlProcessed = TRUE
                    /\ LastWrite(t).embedding = Embedded(t)
              /\ task[t].outcome = "rejected" =>
                    /\ LastWrite(t).mlProcessed = FALSE
                    /\ LastWrite(t).mlError = Some(The(task[t].error).message)
              /\ task[t].outcome \in {"resolved", "rejected"}

\* C18: every call that has been started, awaited by nobody, settles.
C18_Terminates == \A t \in Tasks : (task[t].pc = "load") ~> Settled(t)

\* C18: under fair scheduling a started call for an existing book settles
\* after at most 3 embedBook and 3 addToIndex invocations, having written the
\* success fields or a failure record.
C18_FireAndForget == []C18_BoundedAndPersisted /\ C18_Terminates

\* C18 witness: a call has settled after 3 embedBook and 3 addToIndex
\* invocations while another call for the same book is still under way.
C18_Witness ==
    \E t, u \in Tasks :
        /\ Settled(t)
        /\ Cardinality(Ops(t, "embedBook")) = 3
        /\ Cardinality(Ops(t, "addToIndex")) = 3
        /\ task[u].pc \notin {"idle", "done"}

----------------------------------------------------------------------------
(* Claims about repeated calls, under RepeatSpec *)

Resolved(t) == Settled(t) /\ task[t].outcome = "resolved"
\* The fields a run is judged by.
Enrichment(doc) ==
    [embedding |-> doc.embedding, mlProcessed |-> doc.mlProcessed,
     mlError |-> doc.mlError]

\* C19: a call resolves only after invoking embedBook and addToIndex itself,
\* whether or not an embedding was already stored.  When a call has resolved
\* with vector v, the document holds embedding v, mlProcessed true and no
\* mlError until the next call writes; the next call invokes embedBook again
\* before it writes, and if it resolves with the same vector the document
\* holds the same three values as after the first call (until a third call
\* writes).
C19_IdempotentTrigger ==
    \A t \in Tasks : Resolved(t) =>
        /\ OkOps(t, "embedBook") # {}
        /\ OkOps(t, "addToIndex") # {}
        /\ \A u \in Tasks : u = t + 1 =>
              LET once == [embedding |-> Embedded(t), mlProcessed |-> TRUE,
                           mlError |-> None]
              IN /\ Ops(u, "updateOne") = {} => Enrichment(Doc(1)) = once
                 /\ Ops(u, "updateOne") # {} => Ops(u, "embedBook") # {}
                 /\ (Resolved(u) /\ OkOps(u, "embedBook") # {}
                        /\ Embedded(u) = Embedded(t)
                        /\ \A w \in Tasks : w > u => Ops(w, "updateOne") = {})
                    => Enrichment(Doc(1)) = once

\* C19 witness: two calls in sequence have resolved with the same vector;
\* the document carries the time of the second call's write.
C19_Witness ==
    /\ Resolved(1)
    /\ Resolved(2)
    /\ Embedded(1) = Embedded(2)
    /\ LastWrite(1).mlProcessedAt = Some(1)
    /\ Doc(1).mlProcessedAt = Some(2)

----------------------------------------------------------------------------
(* Claims about the errors of processBookForML, under SeqSpec *)

\* The error a settled call must have failed with, if any: the not-found
\* error, or the one thrown by the third embedBook or addToIndex invocation.
Failure(t) ==
    IF LoadedNothing(t) THEN Some(NotFoundError(task[t].bookId))
    ELSE IF Cardinality(FailedOps(t, "embedBook")) = 3
    THEN Some(Error(EmbedErrorMessage, 3))
    ELSE IF Cardinality(FailedOps(t, "addToIndex")) = 3
    THEN Some(Error(IndexErrorMessage, 3))
    ELSE None

\* C20: a settled call has rejected exactly when it found no document or its
\* embedBook or addToIndex failed 3 times; it rejected with that very error
\* (the not-found error, or the one created by the third invocation); its
\* last write set mlError to the error's message, and the document it had
\* found holds that message.
C20_FailurePropagation ==
    \A t \in Tasks : Settled(t) =>
        /\ task[t].outcome = "rejected" <=> Failure(t) # None
        /\ task[t].outcome = "rejected" =>
              /\ task[t].error = Failure(t)
              /\ LastWrite(t).mlError = Some(The(Failure(t)).message)
              /\ LastWrite(t).mlProcessed = FALSE
              /\ ~LoadedNothing(t) =>
                    /\ store[task[t].bookId] # None
                    /\ Doc(task[t].bookId).mlError = Some(The(Failure(t)).message)

\* C20 witness: a call has rejected after three failed addToIndex
\* invocations and the document holds the message of the third one's error.
C20_Witness ==
    \E t \in Tasks :
        /\ Settled(t)
        /\ task[t].outcome = "rejected"
        /\ task[t].error = Some(Error(IndexErrorMessage, 3))
        /\ Doc(task[t].bookId).mlError = Some(IndexErrorMessage)
        /\ Doc(task[t].bookId).embedding # None

----------------------------------------------------------------------------
(* Claims about the index result and the processed flag *)

\* The addToIndex invocations of a call whose response reported success.
IndexedOps(t) ==
    {i \in OkOps(t, "addToIndex") : The(log[t][i].data).success}

\* C28 (as stated): a settled call has left its document with mlProcessed
\* true only if one of its addToIndex invocations reported success; a
\* response with success = false does not count.
C28_ProcessedNeedsIndexed ==
    \A t \in Tasks :
        ( /\ Settled(t)
          /\ store[task[t].bookId] # None
          /\ Doc(task[t].bookId).mlProcessed )
        => IndexedOps(t) # {}

\* The writes of a call that set mlProcessed to true, and those that set it
\* to false.
SuccessWrites(t) ==
    {i \in Ops(t, "updateOne") : The(log[t][i].data).mlProcessed = TRUE}
FailureWrites(t) ==
    {i \in Ops(t, "updateOne") : The(log[t][i].data).mlProcessed = FALSE}

\* C30: no document has mlProcessed true together with an mlError, whatever
\* the number of calls under way for it: every write that sets mlProcessed to
\* true unsets mlError in the same update, and every write that sets it to
\* false sets mlError in the same update.
C30_NoProcessedWithError ==
    /\ \A id \in BookIds : store[id] # None =>
          ~(Doc(id).mlProcessed /\ Doc(id).mlError # None)
    /\ \A t \in Tasks :
          /\ \A i \in SuccessWrites(t) :
                /\ "mlError" \in DOMAIN The(log[t][i].data)
                /\ The(log[t][i].data).mlError = None
          /\ \A i \in FailureWrites(t) :
                /\ "mlError" \in DOMAIN The(log[t][i].data)
                /\ The(log[t][i].data).mlError # None

\* C30 witness: one call for book 1 has rejected, having recorded its
\* failure, and the document is processed by the write of another call that
\* is still under way.
C30_Witness ==
    \E t, u \in Tasks :
        /\ Settled(t)
        /\ FailureWrites(t) # {}
        /\ task[u].pc \in {"index", "indexSleep"}
        /\ SuccessWrites(u) # {}
        /\ Doc(1).mlProcessed
        /\ Doc(1).mlError = None

----------------------------------------------------------------------------
(* Claims about getMLStats, under StatsSpec *)

\* The derived status of a document.
Status(doc) ==
    IF doc.mlProcessed THEN "processed"
    ELSE IF doc.mlError # None THEN "failed"
    ELSE "unprocessed"

WithStatus(status) ==
    {id \in BookIds : store[id] # None /\ Status(Doc(id)) = status}

\* C27 (as stated): the statuses partition the stored documents, and a
\* getMLStats call returns total = processed + failed + pending where pending
\* is a number of documents (those with mlProcessed false and no mlError): it
\* is not negative and not above total.
C27_StatsPartition ==
    /\ \A id \in BookIds : store[id] # None =>
          Cardinality({s \in {"processed", "failed", "unprocessed"} :
                          id \in WithStatus(s)}) = 1
    /\ stats.pc = "done" =>
          LET r == The(stats.result) IN
          /\ r.total = r.processed + r.failed + r.pending
          /\ r.pending >= 0
          /\ r.pending <= r.total

----------------------------------------------------------------------------
(* Claims about tokenize, under TokenizeSpec *)

\* The text as tokenize splits it: lower-cased, without the characters that
\* are neither letters nor whitespace.
Normalized(text) ==
    LET lower == ToLowerCase(text)
        kept == {i \in DOMAIN lower :
                    IsLowerLetter(lower[i]) \/ lower[i] \in Whitespace}
        Nth(k) == CHOOSE i \in kept : Cardinality({j \in kept : j < i}) = k - 1
    IN [k \in 1..Cardinality(kept) |-> lower[Nth(k)]]

\* The words of a normalized text, as <<first, last>> positions: the maximal
\* runs without whitespace.
Words(str) ==
    {w \in (DOMAIN str) \X (DOMAIN str) :
        /\ w[1] <= w[2]
        /\ \A i \in w[1]..w[2] : str[i] \notin Whitespace
        /\ w[1] = 1 \/ str[w[1] - 1] \in Whitespace
        /\ w[2] = Len(str) \/ str[w[2] + 1] \in Whitespace}

\* C26: every token of tokenize(text) is made of the letters a-z only, has
\* at least 3 characters and is no stop word; the tokens are, in the order of
\* the input, the words of the lower-cased and stripped text that pass these
\* tests; tokenize changes no state.
C26_TokenizerContract ==
    fnCall.result # None =>
        LET tokens == The(fnCall.result)
            str == Normalized(fnCall.text)
            kept == {w \in Words(str) :
                        /\ w[2] - w[1] + 1 >= 3
                        /\ SubSeq(str, w[1], w[2]) \notin STOP_WORDS}
        IN /\ \A k \in DOMAIN tokens :
                /\ \A i \in DOMAIN tokens[k] : IsLowerLetter(tokens[k][i])
                /\ Len(tokens[k]) >= 3
                /\ tokens[k] \notin STOP_WORDS
           /\ Len(tokens) = Cardinality(kept)
           /\ \A k \in DOMAIN tokens :
                \E w \in kept :
                    /\ Cardinality({v \in kept : v[1] < w[1]}) = k - 1
                    /\ tokens[k] = SubSeq(str, w[1], w[2])
           /\ globalFrequency = <<>>

\* C26 witness: a text with an upper-case letter has been tokenized into two
\* tokens.
C26_Witness ==
    /\ fnCall.text = <<"A", "l", "a", " ", "l", "l", "l">>
    /\ fnCall.result = Some(<< <<"a", "l", "a">>, <<"l", "l", "l">> >>)


----------------------------------------------------------------------------
(* Claims about analyzePage, under PagesSpec *)

\* A table as a mapping: its entries, whatever their order of insertion.
Entries(freq) == {freq[i] : i \in DOMAIN freq}

RECURSIVE Concat(_, _)
Concat(chunks, separator) ==
    IF chunks = <<>> THEN <<>>
    ELSE IF Len(chunks) = 1 THEN chunks[1]
    ELSE chunks[1] \o separator \o Concat(Tail(chunks), separator)

\* The number of times a word is a token of one of the chunks.
Occurrences(chunks, word) ==
    Cardinality({p \in (DOMAIN chunks) \X (1..MaxPagesLen) :
        /\ p[2] \in DOMAIN Tokenize(chunks[p[1]])
        /\ Tokenize(chunks[p[1]])[p[2]] = word})

AllRecorded == pages.recorded = DOMAIN pages.chunks

\* The table after analyzePage on each chunk in the order of the text.
RECURSIVE AnalyzeAll(_, _)
AnalyzeAll(freq, chunks) ==
    IF chunks = <<>> THEN freq
    ELSE AnalyzeAll(AnalyzePage(freq, Head(chunks)), Tail(chunks))

\* C22 (as stated): once analyzePage has been called on every chunk of a
\* partition of a text, the table is the one a single call on the
\* concatenation of the chunks gives.
C22_AnyPartition ==
    AllRecorded =>
        Entries(globalFrequency) =
            Entries(AnalyzePage(<<>>, Concat(pages.chunks, <<>>)))

\* C22 (amended): once analyzePage has been called on every chunk, the table
\* is the one a single call gives on the chunks joined with a space between
\* one chunk and the next.
C22_ChunkingEquivalence ==
    AllRecorded =>
        /\ Entries(globalFrequency) =
              Entries(AnalyzePage(<<>>, Concat(pages.chunks, <<" ">>)))
        /\ \A i, j \in DOMAIN globalFrequency :
              globalFrequency[i][1] = globalFrequency[j][1] => i = j

\* C22 witness: the text "aaaaaa" cut in the middle has been recorded: the
\* table counts aaa twice.
C22_Witness ==
    /\ AllRecorded
    /\ pages.chunks = << <<"a", "a", "a">>, <<"a", "a", "a">> >>
    /\ globalFrequency = << << <<"a", "a", "a">>, 2 >> >>

\* C23: whatever the order in which analyzePage was called on the chunks, the
\* final table maps each word to the number of its occurrences among the
\* tokens of the chunks, which is the table of the original order.
C23_OrderIndependence ==
    AllRecorded =>
        /\ Entries(globalFrequency) = Entries(AnalyzeAll(<<>>, pages.chunks))
        /\ \A e \in Entries(globalFrequency) :
              e[2] > 0 /\ e[2] = Occurrences(pages.chunks, e[1])
        /\ \A k \in DOMAIN pages.chunks :
              \A i \in DOMAIN Tokenize(pages.chunks[k]) :
                  Has(globalFrequency, Tokenize(pages.chunks[k])[i])
        /\ \A i, j \in DOMAIN globalFrequency :
              globalFrequency[i][1] = globalFrequency[j][1] => i = j

\* C23 witness: two chunks with different words have been recorded, the
\* second one first, so that the order of insertion is not that of the text.
C23_Witness ==
    /\ AllRecorded
    /\ pages.chunks = << <<"a", "a", "a", "a">>, <<"a", "a", "a">> >>
    /\ globalFrequency =
          << << <<"a", "a", "a">>, 1 >>, << <<"a", "a", "a", "a">>, 1 >> >>

----------------------------------------------------------------------------
(* Claims about getTopWords and getTopWordsHeap, under TopKSpec *)

\* What the calls have returned so far.
Returned ==
    (IF heap.pc = "done" THEN {The(heap.result)} ELSE {})
    \cup (IF fnCall.result # None THEN {The(fnCall.result)} ELSE {})

Descending(result) ==
    \A i \in 1..(Len(result) - 1) : result[i].count >= result[i + 1].count

\* C24: for topN >= 1 each function returns min(topN, size of the table)
\* entries; each is an entry of the table with its count; no word comes
\* twice; no word left out has a greater count than a word returned; the
\* counts are in descending order.
C24_TopK ==
    heap.topN >= 1 =>
        \A result \in Returned :
            /\ Len(result) = Min(heap.topN, Len(globalFrequency))
            /\ \A i \in DOMAIN result :
                  <<result[i].word, result[i].count>> \in Entries(globalFrequency)
            /\ \A i, j \in DOMAIN result :
                  result[i].word = result[j].word => i = j
            /\ \A e \in Entries(globalFrequency) :
                  (\A i \in DOMAIN result : result[i].word # e[1]) =>
                      \A i \in DOMAIN result : result[i].count >= e[2]
            /\ Descending(result)

\* C24 witness: both functions have returned the 2 most frequent words of a
\* table of 4 words, of which the heap has dropped the first two inserted.
C24_Witness ==
    /\ heap.topN = 2
    /\ globalFrequency = << <<WordOf(1), 1>>, <<WordOf(2), 2>>,
                            <<WordOf(3), 3>>, <<WordOf(4), 3>> >>
    /\ heap.pc = "done"
    /\ fnCall.result # None
    /\ {The(heap.result)[i].word : i \in 1..2} = {WordOf(3), WordOf(4)}
    /\ {The(fnCall.result)[i].word : i \in 1..2} = {WordOf(3), WordOf(4)}

\* C25 (as stated): each function returns the empty sequence for topN <= 0
\* and for an empty table, and every entry of the table, in descending order
\* of count, for topN at or above the size of the table.
C25_EdgeCases ==
    \A result \in Returned :
        /\ heap.topN <= 0 => result = <<>>
        /\ globalFrequency = <<>> => result = <<>>
        /\ heap.topN >= Len(globalFrequency) =>
              /\ {<<result[i].word, result[i].count>> : i \in DOMAIN result}
                    = Entries(globalFrequency)
              /\ Len(result) = Len(globalFrequency)
              /\ Descending(result)

\* The min-heap property: the count of a parent is at most that of each of
\* its children.
MinHeapProperty(data) ==
    \A i \in 1..Len(data) : \A c \in {2 * i, 2 * i + 1} :
        c <= Len(data) => data[i][2] <= data[c][2]

\* C29: for topN >= 1 the heap holds at most topN entries after each entry
\* of the table has been processed and at most topN + 1 between the push and
\* the pop; it has the min-heap property after every push and pop; and a pop
\* removes one entry, of the minimum count of the heap, and nothing else.
C29_BoundedHeap ==
    /\ []( /\ heap.pc = "push" => Len(heap.data) <= heap.topN
           /\ heap.pc = "trim" => Len(heap.data) <= heap.topN + 1
           /\ MinHeapProperty(heap.data) )
    /\ [][ (heap.pc = "trim" /\ heap'.pc = "push" /\ Len(heap.data) > heap.topN) =>
             \E k \in DOMAIN heap.data :
                /\ \A i \in DOMAIN heap.data :
                      heap.data[k][2] <= heap.data[i][2]
                /\ Len(heap'.data) = Len(heap.data) - 1
                /\ Entries(heap'.data) = Entries(heap.data) \ {heap.data[k]}
          ]_vars

\* C29 witness: with topN = 2 the heap holds 3 entries between a push and a
\* pop, and the entry just pushed, the least, is at the root.
C29_Witness ==
    /\ heap.pc = "trim"
    /\ heap.topN = 2
    /\ Len(heap.data) = 3
    /\ heap.next = 3
    /\ heap.data[1] = globalFrequency[3]
    /\ heap.data[1][2] < heap.data[2][2]
    /\ heap.data[1][2] < heap.data[3][2]

----------------------------------------------------------------------------
(* Claims about analyzeBookFromUpload, under UploadSpec *)

\* C21 (as stated): whatever the interleaving of the runs, the topWords a
\* run has computed are those of its own pages: what getTopWords returns
\* after analyzePage on each of its pages, from an empty table.
C21_TableScopedToRun ==
    \A r \in Uploads :
        upload[r].pc = "done" =>
            The(upload[r].topWords) =
                GetTopWords(AnalyzeAll(<<>>, upload[r].pdf), upload[r].topN)

----------------------------------------------------------------------------
(* Claims about the document once concurrent calls have settled, under
   RaceSpec *)

\* Every call that was made for book 1 has settled, and there is one.
Quiescent ==
    /\ \A t \in Tasks : task[t].pc \in {"idle", "done"}
    /\ \E t \in Tasks : Settled(t)

\* C31 (as stated): once every call for book 1 has settled, mlProcessed true
\* implies that the index reported success to one of the calls, and
\* mlProcessed false with an mlError implies that one of the calls rejected.
C31_QuiescentConsistency ==
    Quiescent =>
        /\ Doc(1).mlProcessed => \E t \in Tasks : IndexedOps(t) # {}
        /\ (~Doc(1).mlProcessed /\ Doc(1).mlError # None) =>
              \E t \in Tasks : Settled(t) /\ task[t].outcome = "rejected"

----------------------------------------------------------------------------
(* Claims about the failure write, under SeqSpec *)

----------------------------------------------------------------------------
(* Claims about the agreement of getTopWords and getTopWordsHeap, under
   TopKSpec *)

BothReturned == heap.pc = "done" /\ fnCall.result # None

CountsOf(result) == [i \in DOMAIN result |-> result[i].count]
WordsOf(result) == {result[i].word : i \in DOMAIN result}

\* No tie at position topN: the table has at most topN entries, or some
\* count is reached by exactly topN entries.
NoTieAt(freq, topN) ==
    \/ Len(freq) <= topN
    \/ \E e \in Entries(freq) :
          Cardinality({d \in Entries(freq) : d[2] >= e[2]}) = topN

\* C33: for topN >= 1, once both functions have returned on the same table,
\* their results have the same length and the same sequence of counts, and
\* the same set of words when no two entries tie at position topN.
C33_TopKAgree ==
    (heap.topN >= 1 /\ BothReturned) =>
        LET sorted == The(fnCall.result)
            heaped == The(heap.result)
        IN /\ Len(sorted) = Len(heaped)
           /\ CountsOf(sorted) = CountsOf(heaped)
           /\ NoTieAt(globalFrequency, heap.topN) =>
                 WordsOf(sorted) = WordsOf(heaped)

\* C33 witness: on a table of two words of equal count, with topN = 1, the
\* two functions have returned different words with the same count.
C33_Witness ==
    /\ BothReturned
    /\ heap.topN = 1
    /\ globalFrequency = << <<WordOf(1), 2>>, <<WordOf(2), 2>> >>
    /\ The(fnCall.result) = << [word |-> WordOf(1), count |-> 2] >>
    /\ The(heap.result) = << [word |-> WordOf(2), count |-> 2] >>


\* ------------------------------------------------------------------------
\* Claims about retryWithBackoff for every accepted options value (RetrySpec)
\* ------------------------------------------------------------------------

\* The errors thrown by the invocations of fn so far.
ThrownByFn == {fnTrace[i].error : i \in Failures}

\* C34: a settled call of retryWithBackoff has invoked fn at least once,
\* whatever maxRetries was (0 included), and a rejected call rejects with an
\* error that one of the invocations of fn threw.
C34_AtLeastOnce ==
    /\ rs.state \in {"returned", "thrown"} => Len(fnTrace) >= 1
    /\ rs.state = "thrown" => rs.thrown \subseteq ThrownByFn /\ rs.thrown # None


\* ------------------------------------------------------------------------
\* Claims about a throwing onRetry observer (ObserverSpec)
\* ------------------------------------------------------------------------

\* The calls of onRetry that threw.
ObserverThrew == {i \in DOMAIN observed : Len(observed[i]) = 3}

\* C35: when onRetry throws while handling the failure of attempt i, the call
\* rejects with the observer's exception, no delay follows the attempt and fn
\* is not invoked again: it was invoked exactly i times, with i - 1 delays.
C35_ObserverThrowAborts ==
    \A k \in ObserverThrew :
        LET i == observed[k][1] IN
        /\ k = Len(observed)
        /\ rs.state = "thrown"
        /\ rs.thrown = Some(observed[k][3])
        /\ rs.result = None
        /\ Len(fnTrace) = i
        /\ observed[k][2] = fnTrace[i].error
        /\ Len(sleeps) = i - 1

\* C35 witness: the observer threw on the second of four attempts, after one
\* delay.
C35_Witness ==
    /\ ObserverThrew = {2}
    /\ rs.maxRetries = 4
    /\ rs.state = "thrown"
    /\ Len(fnTrace) = 2
    /\ Len(sleeps) = 1


\* ------------------------------------------------------------------------
\* Claims about the order of the calls of a batch (BatchSpec)
\* ------------------------------------------------------------------------

\* The processBookForML calls that have started and whose caller has not yet
\* seen them settle.
InFlight == {t \in Tasks : task[t].pc # "idle"}

\* C36: the batch runs its calls one after another in the order of the query
\* result: at most one call is in flight, it is the call the loop awaits, its
\* document is the one following those whose calls have settled, and no call
\* is in flight when the loop is not awaiting.
C36_SequentialBatch ==
    /\ Cardinality(InFlight) <= 1
    /\ batch.pc # "await" => InFlight = {}
    /\ \A t \in InFlight :
          /\ t = batch.t
          /\ Len(batch.results) < Len(batch.failedBooks)
          /\ task[t].bookId = batch.failedBooks[Len(batch.results) + 1]
          /\ \A j \in 1..Len(batch.results) :
                batch.calls[j] = batch.failedBooks[j]

\* C36 witness: the call for the second selected document is under way, after
\* the call for the first was rejected.
C36_Witness ==
    /\ batch.pc = "await"
    /\ Len(batch.failedBooks) = 2
    /\ batch.results = <<"rejected">>
    /\ task[batch.t].bookId = batch.failedBooks[2]
    /\ task[batch.t].pc = "embed"


\* ------------------------------------------------------------------------
\* Claims about the saved book and the ML service, under UploadSpec
\* ------------------------------------------------------------------------

\* The runs whose automatic embedding call failed.
EmbedFailed == {r \in Uploads : upload[r].mlError # None}

\* C37: a run whose embedding call failed returns, without raising, the book
\* it saved, with the run's topWords, their total and analysisProgress 100;
\* and a stored book has an embedding only if the embedding call of a run
\* that holds this book returned that embedding.
C37_UploadSurvivesMLFailure ==
    /\ \A r \in EmbedFailed :
          /\ upload[r].pc = "done"
          /\ upload[r].outcome = "returned"
          /\ upload[r].book # None
          /\ The(upload[r].book).key = upload[r].key
          /\ The(upload[r].book).topWords = The(upload[r].topWords)
          /\ The(upload[r].book).totalWords = TotalWords(The(upload[r].topWords))
          /\ The(upload[r].book).analysisProgress = 100
          /\ upload[r].embeddings = None
    /\ \A i \in DOMAIN books :
          books[i].embedding # None =>
              \E r \in Uploads :
                  /\ upload[r].embeddings # None
                  /\ upload[r].mlError = None
                  /\ The(upload[r].book).id = books[i].id
                  /\ Some(The(upload[r].embeddings).embedding) = books[i].embedding

\* C37 witness: of two runs for different books, the first returned its saved
\* book after its embedding call failed, the second stored an embedding.
C37_Witness ==
    /\ upload[1].pc = "done"
    /\ upload[1].mlError # None
    /\ The(upload[1].book).topWords # <<>>
    /\ upload[2].pc = "done"
    /\ upload[2].embeddings # None
    /\ Len(books) = 2
    /\ books[1].embedding = None
    /\ books[2].embedding # None

\* No two documents of the collection have the same (title, author).
UniqueTitles ==
    \A i, j \in DOMAIN books : books[i].key = books[j].key => i = j

\* The step in which the findOne of run r resolves.
FindResolves(r) == upload[r].pc = "find" /\ upload'[r].pc # "find"

\* C38: the collection never holds two books of one (title, author); and a
\* run whose findOne meets a book with top words returns that book and ends,
\* having changed neither the bucket, nor the frequency table, nor the
\* collection, and having sent nothing to the ML service.
C38_Deduplication ==
    /\ []UniqueTitles
    /\ [][\A r \in Uploads :
            /\ (FindResolves(r) /\ \E i \in Matching(books, upload[r].key) :
                                       books[i].topWords # <<>>)
                  => /\ upload'[r].pc = "cached"
                     /\ upload'[r].outcome = "returned"
                     /\ upload'[r].book \subseteq {books[i] : i \in DOMAIN books}
                     /\ upload'[r].book # None
                     /\ The(upload'[r].book).key = upload[r].key
                     /\ UNCHANGED <<books, bucket, globalFrequency, mlRequests>>
            /\ upload[r].pc = "cached"
                  => /\ upload'[r] = upload[r]
                     /\ r \notin bucket'
                     /\ r \notin mlRequests']_vars

\* C38 witness: the first run met the analysed book of its (title, author)
\* and returned it untouched, while the second run uploaded, analysed and
\* saved a book of another pair.
C38_Witness ==
    /\ upload[1].pc = "cached"
    /\ upload[1].book = Some(AnalysedBook)
    /\ upload[2].pc = "done"
    /\ upload[2].key # upload[1].key
    /\ bucket = {2}
    /\ mlRequests = {2}
    /\ Len(books) = 2
    /\ books[1] = AnalysedBook


\* ------------------------------------------------------------------------
\* Claims about embedAndIndexBook, under EmbedIndexSpec
\* ------------------------------------------------------------------------

\* The calls whose indexBook has been called.
IndexBookCalled ==
    {c \in Calls : embedIndex[c].pc \in {"index", "stamp"}
                   \/ embedIndex[c].success # None
                   \/ embedIndex[c].error = Some("Failed to index book")}

\* The stored document of an _id, if there is one.
Stored(bookId) == {books[i] : i \in {j \in DOMAIN books : books[j].id = bookId}}

\* C39: indexBook is called only once embedBook has returned an embedding and
\* its write has resolved, the book, when it is stored, then holding an
\* embedding; a call whose embedBook failed never calls indexBook nor writes
\* indexedAt; indexedAt is written only by a call whose indexAdd returned
\* true; and every stored book with indexedAt set holds an embedding.
C39_IndexAfterEmbed ==
    /\ \A c \in IndexBookCalled :
          /\ embedIndex[c].embedding # None
          /\ embedIndex[c].persisted
          /\ \A doc \in Stored(embedIndex[c].bookId) : doc.embedding # None
    /\ \A c \in Calls :
          /\ embedIndex[c].error = Some("Failed to embed book") =>
                /\ c \notin IndexBookCalled
                /\ ~embedIndex[c].stamped
                /\ embedIndex[c].result = None
          /\ embedIndex[c].stamped => embedIndex[c].success = Some(TRUE)
    /\ \A i \in DOMAIN books :
          /\ books[i].indexedAt \subseteq {0} \cup {c \in Calls : embedIndex[c].stamped}
          /\ books[i].indexedAt # None => books[i].embedding # None

\* C39 witness: on a book stored without embedding, one call embedded and
\* indexed it while the other failed at the embedding step.
C39_Witness ==
    /\ Len(books) >= 1
    /\ embedIndex[1].bookId = 1
    /\ embedIndex[2].bookId = 1
    /\ embedIndex[1].pc = "done"
    /\ embedIndex[1].result = Some([embedding |-> "v2", indexed |-> TRUE])
    /\ embedIndex[2].error = Some("Failed to embed book")
    /\ books[1].indexedAt = Some(1)
    /\ books[1].embedding = Some("v2")

====
